---------------------------- MODULE Spec2Model ----------------------------
(***************************************************************************)
(* File-mailbox request/response rendezvous of sklinak/project-AP.         *)
(*                                                                         *)
(* Two deployments share the protocol:                                     *)
(*   multi  : server.cpp  + client.cpp   (record = status, client_id, data)*)
(*   single : README.md server + the single-mailbox client (status, data)  *)
(* Every process is a single control thread; one step of the model is one  *)
(* readMessage/writeMessage call together with the local computation that  *)
(* follows it up to the next call.  A signal only clears the process's     *)
(* `running` flag, which is looked at where the code looks at it.          *)
(***************************************************************************)
EXTENDS Integers, Sequences, FiniteSets, TLC

VARIABLES
    variant,              \* "multi" | "single" | "codec": which deployment runs
    ioFaults,             \* whether the storage medium may fail a read/write
    mailbox,              \* the record held by the shared file
    s_pc,                 \* server: position in main
    s_running,            \* server: std::atomic<bool> running
    s_msg,                \* server: local Message msg
    nextClientId,         \* server.cpp: int nextClientId
    connectedClients,     \* server.cpp: std::set<int> connectedClients
    clientCounter,        \* server.cpp: std::atomic<int> clientCounter
    serverInstanceNumber, \* server.cpp: int serverInstanceNumber
    fileLinked,           \* the mailbox file's name is in the directory
    c_pc,                 \* client: position in main
    c_running,            \* client: std::atomic<bool> running
    currentClientId,      \* client.cpp: int currentClientId
    waitAttempts,         \* client: int waitAttempts
    c_cmd,                \* client: the command / user input being sent
    gotResponse,          \* client: bool gotResponse
    processedRequests,    \* single-mailbox server: int processedRequests
    errorCount,           \* single-mailbox server: int errorCount
    requestCounter,       \* single-mailbox client: int requestCounter
    c_outcome,            \* history: how the client's last attempt ended
    h_new,                \* history: "ping" requests with client_id 0 written by the requester
    file,                 \* byte level: the bytes of the mailbox file
    k_pc,                 \* byte level: position of the caller of writeMessage / readMessage
    k_in,                 \* byte level: the Message handed to writeMessage
    k_out,                \* byte level: the Message readMessage fills
    k_w,                  \* byte level: what writeMessage returned
    k_r,                  \* byte level: what readMessage returned
    k_again,              \* byte level: the file has been written before
    k_wsys,               \* byte level: what lseek, write and fsync gave in writeMessage
    k_rsys,               \* byte level: what lseek and read gave in readMessage
    dir,                  \* directory: what each file name of the directory holds
    d_spc,                \* directory: position of each server process in main
    d_num,                \* directory: each server process's serverInstanceNumber
    d_started,            \* history: the numbers of the servers in the order they started
    d_cpc,                \* directory: position of the client running autoConnectToServer
    serverFiles,          \* client.cpp autoConnectToServer: what findServerFiles returned
    d_result,             \* client.cpp: what autoConnectToServer returned
    w_pc,                 \* wait loop: position of the client in AWAIT_RESPONSE
    w_polls,              \* history: reads of the mailbox made by the wait loop
    w_elapsed,            \* wait loop: milliseconds since start (steady_clock)
    w_status,             \* wait loop: the status the mailbox holds
    w_running             \* wait loop: the client's running flag

vars == <<variant, ioFaults, mailbox, s_pc, s_running, s_msg,
          nextClientId, connectedClients, clientCounter, serverInstanceNumber, fileLinked,
          c_pc, c_running, currentClientId, waitAttempts, c_cmd, gotResponse,
          processedRequests, errorCount, requestCounter, c_outcome, h_new,
          file, k_pc, k_in, k_out, k_w, k_r, k_again, k_wsys, k_rsys,
          dir, d_spc, d_num, d_started, d_cpc, serverFiles, d_result,
          w_pc, w_polls, w_elapsed, w_status, w_running>>

---------------------------------------------------------------------------
(* Bounds of the model                                                     *)

\* the id allocator is followed up to this many allocations
MaxClientId == 3
\* instance numbers a started server may carry
MaxInstance == 2
\* requests the single-mailbox server is followed through
MaxProcessed == 2
\* requests the single-mailbox client is followed through
MaxRequests == 2

(* Program constants                                                       *)
FREE == 0
REQUEST == 1
RESPONSE == 2
DATA_SIZE == 256
MAX_WAIT_ATTEMPTS == 5
MAX_WAIT_ATTEMPTS_SINGLE == 50

Clients == {"c1"}

---------------------------------------------------------------------------
(* Text: a C string is the sequence of its characters                      *)

UpperCase == <<"A","B","C","D","E","F","G","H","I","J","K","L","M",
               "N","O","P","Q","R","S","T","U","V","W","X","Y","Z">>
LowerCase == <<"a","b","c","d","e","f","g","h","i","j","k","l","m",
               "n","o","p","q","r","s","t","u","v","w","x","y","z">>
Digits == <<"0","1","2","3","4","5","6","7","8","9">>
WhiteSpace == {" ", "\t", "\n", "\r"}

tolower(ch) ==
    IF \E i \in 1..26 : UpperCase[i] = ch
    THEN LowerCase[CHOOSE i \in 1..26 : UpperCase[i] = ch]
    ELSE ch

RECURSIVE to_string(_)
to_string(n) ==
    IF n < 0 THEN <<"-">> \o to_string(-n)
    ELSE IF n < 10 THEN <<Digits[n + 1]>>
    ELSE to_string(n \div 10) \o <<Digits[(n % 10) + 1]>>

\* strncpy(dst, src, sizeof(dst) - 1); dst[sizeof(dst) - 1] = '\0'
strncpy255(s) == IF Len(s) > DATA_SIZE - 1 THEN SubSeq(s, 1, DATA_SIZE - 1) ELSE s

PING == <<"p","i","n","g">>
ERR_ONLY_PING == <<"E","R","R","O","R",":"," ","O","n","l","y"," ","'","p","i","n","g","'",
                   " ","i","s"," ","a","c","c","e","p","t","e","d">>
PONG_FROM == <<"p","o","n","g"," ","f","r","o","m"," ","s","e","r","v","e","r"," ","#">>
TO_CLIENT == <<" ","t","o"," ","c","l","i","e","n","t"," ","#">>
SERVER_SHUTDOWN == <<"S","E","R","V","E","R","_","S","H","U","T","D","O","W","N">>

Msg(st, id, d) == [status |-> st, client_id |-> id, data |-> d]
ZeroMsg == Msg(FREE, 0, <<>>)

\* a faulty validation that would compare the text as it came
isValidPingRequestExact(text) == text = PING

\* find_first_not_of / find_last_not_of(" \t\n\r"); 0 stands for npos
find_first_not_of(s) ==
    IF \E i \in 1..Len(s) : s[i] \notin WhiteSpace
    THEN CHOOSE i \in 1..Len(s) : s[i] \notin WhiteSpace /\ \A j \in 1..(i-1) : s[j] \in WhiteSpace
    ELSE 0
find_last_not_of(s) ==
    IF \E i \in 1..Len(s) : s[i] \notin WhiteSpace
    THEN CHOOSE i \in 1..Len(s) : s[i] \notin WhiteSpace /\ \A j \in (i+1)..Len(s) : s[j] \in WhiteSpace
    ELSE 0

isValidPingRequest(text) ==
    LET start == find_first_not_of(text) IN
    IF start = 0 THEN FALSE
    ELSE LET end == find_last_not_of(text)
             request == SubSeq(text, start, end)
             lowerRequest == [i \in 1..Len(request) |-> tolower(request[i])]
         IN  lowerRequest = PING

pongResponse(n, id) == PONG_FROM \o to_string(n) \o TO_CLIENT \o to_string(id)

---------------------------------------------------------------------------
(* Storage: readMessage / writeMessage on the record                       *)

\* outcomes a read or write can have on this medium
IOOutcomes == IF ioFaults THEN {TRUE, FALSE} ELSE {TRUE}

\* writeMessage that reached the file: the whole record is replaced
Written(rec) == mailbox' = rec

\* writeMessage whose write() failed: the file is as before
NotWritten == UNCHANGED mailbox

writeMessage(ok, rec) == IF ok THEN Written(rec) ELSE NotWritten

multiSrvVars == <<nextClientId, connectedClients, clientCounter, serverInstanceNumber,
                  fileLinked>>
singleSrvVars == <<processedRequests, errorCount>>
srvVars == <<s_pc, s_running, s_msg, multiSrvVars, singleSrvVars>>
cliVars == <<c_pc, c_running, currentClientId, waitAttempts, c_cmd, gotResponse,
             requestCounter, c_outcome>>
codecVars == <<file, k_pc, k_in, k_out, k_w, k_r, k_again, k_wsys, k_rsys>>

\* the system calls of a writeMessage / readMessage that has not been made
NoCall == [seek |-> TRUE, n |-> 0, sync |-> TRUE]
dirVars == <<dir, d_spc, d_num, d_started, d_cpc, serverFiles, d_result>>
awaitVars == <<w_pc, w_polls, w_elapsed, w_status, w_running>>
envVars == <<variant, ioFaults, h_new, codecVars, dirVars, awaitVars>>

\* the directory is not part of a deployment with one mailbox file
DirOff ==
    /\ dir = <<>> /\ d_spc = <<>> /\ d_num = <<>> /\ d_started = <<>>
    /\ d_cpc = "off" /\ serverFiles = <<>> /\ d_result = <<>>

\* the timed wait loop is not part of a deployment
AwaitOff ==
    /\ w_pc = "off" /\ w_polls = 0 /\ w_elapsed = 0 /\ w_status = 0 /\ w_running = FALSE

\* the byte-level caller is not part of a deployment
CodecOff ==
    /\ file = <<>> /\ k_pc = "off" /\ k_in = <<>> /\ k_out = <<>>
    /\ k_w = FALSE /\ k_r = FALSE /\ k_again = FALSE
    /\ k_wsys = NoCall /\ k_rsys = NoCall



---------------------------------------------------------------------------
(* server.cpp main: the multi-instance server                              *)

\* a faulty wait that would give up at the first failed read
MS_WaitForRequestFatal ==
    /\ variant = "multi" /\ s_pc = "wait"
    /\ IF ~s_running
       THEN /\ s_pc' = "shutdown"
            /\ UNCHANGED s_msg
       ELSE \E ok \in IOOutcomes :
              IF ~ok
              THEN s_pc' = "shutdown" /\ UNCHANGED s_msg
              ELSE IF mailbox.status = REQUEST
              THEN s_pc' = "dispatch" /\ s_msg' = mailbox
              ELSE UNCHANGED <<s_pc, s_msg>>
    /\ UNCHANGED <<mailbox, s_running, nextClientId, connectedClients,
                   clientCounter, serverInstanceNumber, fileLinked>>
    /\ UNCHANGED singleSrvVars /\ UNCHANGED cliVars /\ UNCHANGED envVars

\* lines 226-243: the inner wait loop; one iteration reads the record once
MS_WaitForRequest ==
    /\ variant = "multi" /\ s_pc = "wait"
    /\ IF ~s_running
       THEN /\ s_pc' = "shutdown"
            /\ UNCHANGED s_msg
       ELSE \E ok \in IOOutcomes :
              IF ok /\ mailbox.status = REQUEST
              THEN s_pc' = "dispatch" /\ s_msg' = mailbox
              ELSE UNCHANGED <<s_pc, s_msg>>
    /\ UNCHANGED <<mailbox, s_running, nextClientId, connectedClients,
                   clientCounter, serverInstanceNumber, fileLinked>>
    /\ UNCHANGED singleSrvVars /\ UNCHANGED cliVars /\ UNCHANGED envVars

\* lines 252-255: the reply to a request that is not "ping"
errorReply(msg) == Msg(RESPONSE, msg.client_id, strncpy255(ERR_ONLY_PING))

\* a faulty allocation that would increment before use
allocatedIdAfterIncrement(next) == next + 1

\* line 269: msg.client_id = nextClientId++  (the id handed out)
allocatedId(next) == next

\* lines 261-280: DISPATCH; the server's session state after the request
dispatch(msg) ==
    LET isZero == msg.client_id = 0
        id     == IF isZero THEN allocatedId(nextClientId) ELSE msg.client_id
        isNewClient == isZero \/ (msg.client_id > 0 /\ msg.client_id \notin connectedClients)
        known  == IF isNewClient THEN connectedClients \cup {id} ELSE connectedClients
    IN  [ id |-> id,
          nextClientId |-> IF isZero THEN nextClientId + 1 ELSE nextClientId,
          connectedClients |-> known,
          clientCounter |-> IF isNewClient THEN Cardinality(known) ELSE clientCounter ]

\* a faulty pong reply that would hand the mailbox back as FREE
pongReplyFreed(id) == Msg(FREE, id, strncpy255(pongResponse(serverInstanceNumber, id)))

\* lines 290-296: the pong reply
pongReply(id) == Msg(RESPONSE, id, strncpy255(pongResponse(serverInstanceNumber, id)))

\* lines 243-304: VALIDATE, DISPATCH, RESPOND for the request picked up
MS_Respond ==
    /\ variant = "multi" /\ s_pc = "dispatch"
    /\ IF ~s_running
       THEN /\ s_pc' = "shutdown"
            /\ UNCHANGED <<mailbox, s_msg, nextClientId, connectedClients, clientCounter>>
       ELSE /\ s_pc' = "wait" /\ s_msg' = ZeroMsg
            /\ IF ~isValidPingRequest(s_msg.data)
               THEN /\ \E ok \in IOOutcomes : writeMessage(ok, errorReply(s_msg))
                    /\ UNCHANGED <<nextClientId, connectedClients, clientCounter>>
               ELSE LET d == dispatch(s_msg) IN
                    /\ s_msg.client_id = 0 => nextClientId <= MaxClientId
                    /\ nextClientId' = d.nextClientId
                    /\ connectedClients' = d.connectedClients
                    /\ clientCounter' = d.clientCounter
                    /\ \E ok \in IOOutcomes : writeMessage(ok, pongReply(d.id))
    /\ UNCHANGED <<s_running, serverInstanceNumber, fileLinked>>
    /\ UNCHANGED singleSrvVars /\ UNCHANGED cliVars /\ UNCHANGED envVars

\* a faulty notice that would carry no marker
shutdownRecordSilent == Msg(FREE, 0, <<>>)

\* lines 310-314: the shutdown notice
shutdownRecord == Msg(FREE, 0, strncpy255(SERVER_SHUTDOWN))

\* lines 307-318: shutdown notice, close, cleanupServerFile (unlink)
MS_Shutdown ==
    /\ variant = "multi" /\ s_pc = "shutdown"
    /\ \E ok \in IOOutcomes : writeMessage(ok, shutdownRecord)
    /\ s_pc' = "stopped"
    /\ fileLinked' = FALSE
    /\ UNCHANGED <<s_running, s_msg, nextClientId, connectedClients, clientCounter,
                   serverInstanceNumber>>
    /\ UNCHANGED singleSrvVars /\ UNCHANGED cliVars /\ UNCHANGED envVars

\* signalHandler (SIGINT / SIGTERM) of the server process
S_Signal ==
    /\ s_pc \notin {"stopped", "off"} /\ s_running
    /\ s_running' = FALSE
    /\ UNCHANGED <<mailbox, s_pc, s_msg, nextClientId, connectedClients,
                   clientCounter, serverInstanceNumber, fileLinked>>
    /\ UNCHANGED singleSrvVars /\ UNCHANGED cliVars /\ UNCHANGED envVars


---------------------------------------------------------------------------
(* client.cpp: the multi-instance client.  `command`, `waitAttempts` and   *)
(* `gotResponse` are locals of one loop iteration: they are given their    *)
(* initial value again when the iteration ends (waitAttempts keeps the     *)
(* value it had when "Server is busy." was printed).                       *)

\* getInputFromUser accepts a command whose lower-cased text is "ping"
PingCommands == { PING, <<"P","I","N","G">> }

\* what the client printed about the attempt that just ended
Outcome(c, o) == c_outcome' = [c_outcome EXCEPT ![c] = o]

ToPrompt(c) ==
    /\ c_pc' = [c_pc EXCEPT ![c] = "prompt"]
    /\ c_cmd' = [c_cmd EXCEPT ![c] = <<>>]
    /\ gotResponse' = [gotResponse EXCEPT ![c] = FALSE]

\* lines 308-311, 240-286: the prompt; `exit` clears running, `status` probes
MC_Prompt(c) ==
    /\ variant = "multi" /\ c_pc[c] = "prompt"
    /\ \/ /\ ~c_running[c]
          /\ c_pc' = [c_pc EXCEPT ![c] = "exit"]
          /\ UNCHANGED <<c_running, waitAttempts, c_cmd, c_outcome>>
       \/ /\ c_running[c]
          /\ c_running' = [c_running EXCEPT ![c] = FALSE]
          /\ c_pc' = [c_pc EXCEPT ![c] = "exit"]
          /\ UNCHANGED <<waitAttempts, c_cmd, c_outcome>>
       \/ /\ c_pc' = [c_pc EXCEPT ![c] = "p_read"]
          /\ UNCHANGED <<c_running, waitAttempts, c_cmd, c_outcome>>
       \/ /\ c_running[c]
          /\ \E cmd \in PingCommands : c_cmd' = [c_cmd EXCEPT ![c] = cmd]
          /\ waitAttempts' = [waitAttempts EXCEPT ![c] = 0]
          /\ c_pc' = [c_pc EXCEPT ![c] = "wff"]
          /\ Outcome(c, "none")
          /\ UNCHANGED c_running
    /\ UNCHANGED <<mailbox, currentClientId, gotResponse>>
    /\ UNCHANGED requestCounter /\ UNCHANGED srvVars /\ UNCHANGED envVars

\* line 369: if (waitAttempts >= MAX_WAIT_ATTEMPTS) "Server is busy."
busyAfter(n) == n >= MAX_WAIT_ATTEMPTS

\* lines 355-372: WAIT_FOR_FREE, one iteration (or the loop not being entered)
MC_WaitForFree(c) ==
    /\ variant = "multi" /\ c_pc[c] = "wff"
    /\ IF ~c_running[c]
       THEN /\ c_pc' = [c_pc EXCEPT ![c] = "send"]
            /\ waitAttempts' = [waitAttempts EXCEPT ![c] = 0]
            /\ UNCHANGED <<c_cmd, gotResponse, c_outcome>>
       ELSE \E ok \in IOOutcomes :
              IF ~ok \/ mailbox.status = FREE
              THEN /\ c_pc' = [c_pc EXCEPT ![c] = "send"]
                   /\ waitAttempts' = [waitAttempts EXCEPT ![c] = 0]
                   /\ UNCHANGED <<c_cmd, gotResponse, c_outcome>>
              ELSE /\ waitAttempts' = [waitAttempts EXCEPT ![c] = @ + 1]
                   /\ IF busyAfter(waitAttempts[c] + 1)
                      THEN ToPrompt(c) /\ Outcome(c, "busy")
                      ELSE UNCHANGED <<c_pc, c_cmd, gotResponse, c_outcome>>
    /\ UNCHANGED <<mailbox, c_running, currentClientId>>
    /\ UNCHANGED requestCounter /\ UNCHANGED srvVars /\ UNCHANGED envVars

\* a faulty request that would forget the session id
requestRecordAnonymous(id, cmd) == Msg(REQUEST, 0, strncpy255(cmd))

\* a faulty request that would carry no command
requestRecordEmpty(id, cmd) == Msg(REQUEST, id, <<>>)

\* lines 375-379: the request record
requestRecord(id, cmd) == Msg(REQUEST, id, strncpy255(cmd))

\* lines 374-384: SEND
MC_Send(c) ==
    /\ variant = "multi" /\ c_pc[c] = "send"
    /\ \E ok \in IOOutcomes :
         /\ writeMessage(ok, requestRecord(currentClientId[c], c_cmd[c]))
         /\ IF ok
            THEN /\ c_pc' = [c_pc EXCEPT ![c] = "await"]
                 /\ UNCHANGED <<c_cmd, gotResponse, c_outcome>>
            ELSE ToPrompt(c) /\ Outcome(c, "sendfail")
    /\ UNCHANGED <<c_running, currentClientId, waitAttempts>>
    /\ UNCHANGED requestCounter /\ UNCHANGED srvVars /\ UNCHANGED envVars

\* a faulty CONSUME that would never adopt an id
adoptedIdKept(cur, rec) == cur

\* lines 399-402: CONSUME adopts the id of the response
adoptedId(cur, rec) == IF rec.client_id > 0 /\ cur = 0 THEN rec.client_id ELSE cur

\* lines 386-413: AWAIT_RESPONSE, one iteration (or the loop being left)
MC_Await(c) ==
    /\ variant = "multi" /\ c_pc[c] = "await"
    /\ IF ~c_running[c]
       THEN /\ c_pc' = [c_pc EXCEPT ![c] = "free"]
            /\ Outcome(c, "stopped")
            /\ UNCHANGED <<currentClientId, gotResponse>>
       ELSE \E ok \in IOOutcomes, expired \in BOOLEAN :
              IF ~ok
              THEN /\ c_pc' = [c_pc EXCEPT ![c] = "free"]
                   /\ Outcome(c, "readfail")
                   /\ UNCHANGED <<currentClientId, gotResponse>>
              ELSE IF mailbox.status = RESPONSE
              THEN /\ c_pc' = [c_pc EXCEPT ![c] = "free"]
                   /\ Outcome(c, "response")
                   /\ gotResponse' = [gotResponse EXCEPT ![c] = TRUE]
                   /\ currentClientId' =
                        [currentClientId EXCEPT ![c] = adoptedId(@, mailbox)]
              ELSE IF expired
              THEN /\ c_pc' = [c_pc EXCEPT ![c] = "timeout"]
                   /\ Outcome(c, "timeout")
                   /\ UNCHANGED <<currentClientId, gotResponse>>
              ELSE UNCHANGED <<c_pc, currentClientId, gotResponse, c_outcome>>
    /\ UNCHANGED <<mailbox, c_running, waitAttempts, c_cmd>>
    /\ UNCHANGED requestCounter /\ UNCHANGED srvVars /\ UNCHANGED envVars

\* a faulty reset that would leave the status at REQUEST
resetRecordStale(id) == Msg(REQUEST, id, <<>>)

\* a faulty reset that would forget the session id
resetRecordAnonymous(id) == Msg(FREE, 0, <<>>)

\* lines 419-421 / 431-433 / 440-442: the record a client resets the mailbox to
resetRecord(id) == Msg(FREE, id, <<>>)

\* lines 415-424: the timeout-triggered reset
MC_TimeoutReset(c) ==
    /\ variant = "multi" /\ c_pc[c] = "timeout"
    /\ \E ok \in IOOutcomes : writeMessage(ok, resetRecord(currentClientId[c]))
    /\ ToPrompt(c)
    /\ UNCHANGED <<c_running, currentClientId, waitAttempts>>
    /\ UNCHANGED requestCounter /\ UNCHANGED srvVars /\ UNCHANGED envVars
    /\ UNCHANGED c_outcome

\* a faulty "Free the server" that would return to the prompt without the write
MC_FreeSkipped(c) ==
    /\ variant = "multi" /\ c_pc[c] = "free"
    /\ ToPrompt(c)
    /\ UNCHANGED <<mailbox, c_running, currentClientId, waitAttempts>>
    /\ UNCHANGED requestCounter /\ UNCHANGED srvVars /\ UNCHANGED envVars
    /\ UNCHANGED c_outcome

\* lines 426-434: "Free the server", reached whenever the wait loop ended without timeout
MC_Free(c) ==
    /\ variant = "multi" /\ c_pc[c] = "free"
    /\ \E ok \in IOOutcomes : writeMessage(ok, resetRecord(currentClientId[c]))
    /\ ToPrompt(c)
    /\ UNCHANGED <<c_running, currentClientId, waitAttempts>>
    /\ UNCHANGED requestCounter /\ UNCHANGED srvVars /\ UNCHANGED envVars
    /\ UNCHANGED c_outcome

\* lines 438-445: the reset written on the way out
MC_Exit(c) ==
    /\ variant = "multi" /\ c_pc[c] = "exit"
    /\ \E ok \in IOOutcomes : writeMessage(ok, resetRecord(currentClientId[c]))
    /\ c_pc' = [c_pc EXCEPT ![c] = "stopped"]
    /\ UNCHANGED <<c_running, currentClientId, waitAttempts, c_cmd, gotResponse>>
    /\ UNCHANGED requestCounter /\ UNCHANGED srvVars /\ UNCHANGED envVars
    /\ UNCHANGED c_outcome

\* lines 177-186: isConnectedToServer, the first read
MC_ProbeRead(c) ==
    /\ variant = "multi" /\ c_pc[c] = "p_read"
    /\ \E ok \in IOOutcomes :
         c_pc' = [c_pc EXCEPT ![c] = IF ok /\ mailbox.status = FREE THEN "p_send" ELSE "prompt"]
    /\ UNCHANGED <<mailbox, c_running, currentClientId, waitAttempts, c_cmd, gotResponse>>
    /\ UNCHANGED requestCounter /\ UNCHANGED srvVars /\ UNCHANGED envVars
    /\ UNCHANGED c_outcome

\* lines 187-192: the synthetic ping
MC_ProbeSend(c) ==
    /\ variant = "multi" /\ c_pc[c] = "p_send"
    /\ \E ok \in IOOutcomes :
         /\ writeMessage(ok, Msg(REQUEST, currentClientId[c], PING))
         /\ c_pc' = [c_pc EXCEPT ![c] = IF ok THEN "p_await" ELSE "prompt"]
    /\ UNCHANGED <<c_running, currentClientId, waitAttempts, c_cmd, gotResponse>>
    /\ UNCHANGED requestCounter /\ UNCHANGED srvVars /\ UNCHANGED envVars
    /\ UNCHANGED c_outcome

\* lines 193-211: the probe's wait loop (500 ms), one iteration
MC_ProbeAwait(c) ==
    /\ variant = "multi" /\ c_pc[c] = "p_await"
    /\ IF ~c_running[c]
       THEN c_pc' = [c_pc EXCEPT ![c] = "prompt"]
       ELSE \E ok \in IOOutcomes, expired \in BOOLEAN :
              c_pc' = [c_pc EXCEPT ![c] =
                         IF ~ok THEN "prompt"
                         ELSE IF mailbox.status = RESPONSE THEN "p_reset"
                         ELSE IF expired THEN "prompt" ELSE "p_await"]
    /\ UNCHANGED <<mailbox, c_running, currentClientId, waitAttempts, c_cmd, gotResponse>>
    /\ UNCHANGED requestCounter /\ UNCHANGED srvVars /\ UNCHANGED envVars
    /\ UNCHANGED c_outcome

\* lines 213-218: the probe frees the mailbox only when it saw a response
MC_ProbeReset(c) ==
    /\ variant = "multi" /\ c_pc[c] = "p_reset"
    /\ \E ok \in IOOutcomes : writeMessage(ok, resetRecord(currentClientId[c]))
    /\ c_pc' = [c_pc EXCEPT ![c] = "prompt"]
    /\ UNCHANGED <<c_running, currentClientId, waitAttempts, c_cmd, gotResponse>>
    /\ UNCHANGED requestCounter /\ UNCHANGED srvVars /\ UNCHANGED envVars
    /\ UNCHANGED c_outcome

\* signalHandler (SIGINT / SIGTERM) of a client process
C_Signal(c) ==
    /\ c_pc[c] \notin {"stopped", "off"} /\ c_running[c]
    /\ c_running' = [c_running EXCEPT ![c] = FALSE]
    /\ UNCHANGED <<mailbox, c_pc, currentClientId, waitAttempts, c_cmd, gotResponse>>
    /\ UNCHANGED requestCounter /\ UNCHANGED srvVars /\ UNCHANGED envVars
    /\ UNCHANGED c_outcome

---------------------------------------------------------------------------
(* The multi-instance deployment: one started server, clients bound to it  *)

InitMulti ==
    /\ variant = "multi"
    /\ ioFaults \in BOOLEAN
    /\ mailbox = ZeroMsg
    /\ s_pc = "wait" /\ s_running = TRUE /\ s_msg = ZeroMsg
    /\ nextClientId = 1 /\ connectedClients = {} /\ clientCounter = 0
    /\ fileLinked = TRUE
    /\ serverInstanceNumber \in 1..MaxInstance
    /\ c_pc = [c \in Clients |-> "prompt"]
    /\ c_running = [c \in Clients |-> TRUE]
    /\ currentClientId = [c \in Clients |-> 0]
    /\ waitAttempts = [c \in Clients |-> 0]
    /\ c_cmd = [c \in Clients |-> <<>>]
    /\ gotResponse = [c \in Clients |-> FALSE]
    /\ processedRequests = 0 /\ errorCount = 0 /\ requestCounter = 0
    /\ c_outcome = [c \in Clients |-> "none"]
    /\ h_new = 0
    /\ CodecOff /\ DirOff /\ AwaitOff

NextMulti ==
    \/ MS_WaitForRequest \/ MS_Respond \/ MS_Shutdown
    \/ S_Signal
    \/ \E c \in Clients :
         \/ MC_Prompt(c) \/ MC_WaitForFree(c) \/ MC_Send(c) \/ MC_Await(c)
         \/ MC_TimeoutReset(c) \/ MC_Free(c) \/ MC_Exit(c)
         \/ MC_ProbeRead(c) \/ MC_ProbeSend(c) \/ MC_ProbeAwait(c) \/ MC_ProbeReset(c)
         \/ C_Signal(c)

SpecMulti == InitMulti /\ [][NextMulti]_vars

---------------------------------------------------------------------------
(* README.md: the single-mailbox server (record = status, data; the        *)
(* client_id field of the model's record stays 0)                          *)

ERR_INVALID_FORMAT == <<"E","R","R","O","R",":"," ","I","n","v","a","l","i","d"," ","r","e","q","u","e","s","t"," ","f","o","r","m","a","t">>
ERR_SIMULATED == <<"E","R","R","O","R",":"," ","S","i","m","u","l","a","t","e","d"," ","p","r","o","c","e","s","s","i","n","g"," ","e","r","r","o","r">>
AFTER_TIMEOUT == <<"R","e","s","p","o","n","s","e"," ","a","f","t","e","r"," ","t","i","m","e","o","u","t"," ","s","i","m","u","l","a","t","i","o","n">>
NOT_REACHED == <<"T","h","i","s"," ","s","h","o","u","l","d"," ","n","o","t"," ","b","e"," ","r","e","a","c","h","e","d">>
OK_TEXT == <<"O","K">>
INT_MAX == 2147483647

isdigit(ch) == \E i \in 1..10 : Digits[i] = ch
digitValue(ch) == (CHOOSE i \in 1..10 : Digits[i] = ch) - 1

RECURSIVE digitsValue(_)
digitsValue(ds) ==
    IF ds = <<>> THEN 0
    ELSE 10 * digitsValue(SubSeq(ds, 1, Len(ds) - 1)) + digitValue(ds[Len(ds)])

\* the digits without their leading zeros
RECURSIVE stripZeros(_)
stripZeros(ds) == IF ds # <<>> /\ Head(ds) = "0" THEN stripZeros(Tail(ds)) ELSE ds

\* ds, digits of equal length, is a greater number than es
digitsGreater(ds, es) ==
    \E i \in 1..Len(ds) :
        /\ digitValue(ds[i]) > digitValue(es[i])
        /\ \A j \in 1..(i - 1) : ds[j] = es[j]

INT_MAX_DIGITS == <<"2","1","4","7","4","8","3","6","4","7">>
INT_MIN_DIGITS == <<"2","1","4","7","4","8","3","6","4","8">>

\* std::stoi: skips white space, takes a sign and the longest run of digits;
\* throws (ok = FALSE) when there is no digit or the value does not fit an int
stoi(str) ==
    LET n     == Len(str)
        first == IF \E i \in 1..n : str[i] \notin WhiteSpace
                 THEN CHOOSE i \in 1..n : str[i] \notin WhiteSpace
                                           /\ \A j \in 1..(i-1) : str[j] \in WhiteSpace
                 ELSE n + 1
        neg   == first <= n /\ str[first] = "-"
        from  == IF first <= n /\ str[first] \in {"+", "-"} THEN first + 1 ELSE first
        upto  == IF \E i \in from..n : ~isdigit(str[i])
                 THEN (CHOOSE i \in from..n : ~isdigit(str[i])
                                              /\ \A j \in from..(i-1) : isdigit(str[j])) - 1
                 ELSE n
        ds    == stripZeros(SubSeq(str, from, upto))
        limit == IF neg THEN INT_MIN_DIGITS ELSE INT_MAX_DIGITS
        fits  == Len(ds) < 10 \/ (Len(ds) = 10 /\ ~digitsGreater(ds, limit))
    IN  IF upto < from \/ ~fits
        THEN [ok |-> FALSE, value |-> 0]
        ELSE IF neg /\ ds = INT_MIN_DIGITS
        THEN [ok |-> TRUE, value |-> (-INT_MAX) - 1]
        ELSE [ok |-> TRUE, value |-> IF neg THEN -digitsValue(ds) ELSE digitsValue(ds)]

\* lines 244-253
isValidRequest(text) == text # <<>> /\ Len(text) >= 4

\* lines 256-264
extractRequestNumber(request) ==
    IF request = <<>> \/ request[1] # "[" THEN -1
    ELSE LET r == stoi(Tail(request)) IN IF r.ok THEN r.value ELSE -1

\* lines 267-274
extractRequestText(request) ==
    IF \A i \in 1..Len(request) : request[i] # "]" THEN <<>>
    ELSE LET b == CHOOSE i \in 1..Len(request) :
                     request[i] = "]" /\ \A j \in 1..(i-1) : request[j] # "]"
         IN  IF b + 1 > Len(request) \/ request[b + 1] # " " THEN <<>>
             ELSE SubSeq(request, b + 2, Len(request))

\* lines 276-328: the response text and the error flag
processRequest(request) ==
    LET reqNumber == extractRequestNumber(request)
        reqText   == extractRequestText(request)
    IN  IF reqNumber = -1 \/ reqText = <<>>
        THEN [response |-> ERR_INVALID_FORMAT, error |-> TRUE]
        ELSE IF reqText = <<"e","r","r","o","r">>
        THEN [response |-> ERR_SIMULATED, error |-> TRUE]
        ELSE IF reqText = <<"t","i","m","e","o","u","t">>
        THEN [response |-> AFTER_TIMEOUT, error |-> FALSE]
        ELSE IF reqText = <<"c","r","a","s","h">>
        THEN [response |-> NOT_REACHED, error |-> FALSE]
        ELSE IF reqText = <<"i","n","v","a","l","i","d">>
        THEN [response |-> <<>>, error |-> FALSE]
        ELSE [response |-> OK_TEXT, error |-> FALSE]

\* lines 359-377: the inner wait loop, one iteration
SS_WaitForRequest ==
    /\ variant = "single" /\ s_pc = "wait"
    /\ IF ~s_running
       THEN /\ s_pc' = "shutdown"
            /\ UNCHANGED s_msg
       ELSE \E ok \in IOOutcomes :
              IF ok /\ mailbox.status = REQUEST /\ processedRequests < MaxProcessed
              THEN s_pc' = "dispatch" /\ s_msg' = mailbox
              ELSE UNCHANGED <<s_pc, s_msg>>
    /\ UNCHANGED <<mailbox, s_running>>
    /\ UNCHANGED multiSrvVars /\ UNCHANGED singleSrvVars
    /\ UNCHANGED cliVars /\ UNCHANGED envVars

\* a faulty count that would leave out the request being handled
countedRequestsUnchanged(n) == n

\* line 379: processedRequests++ comes before the request is validated
countedRequests(n) == n + 1

\* lines 377-421: VALIDATE, processRequest, RESPOND for the request picked up
SS_Respond ==
    /\ variant = "single" /\ s_pc = "dispatch"
    /\ IF ~s_running
       THEN /\ s_pc' = "shutdown"
            /\ UNCHANGED <<mailbox, s_msg, processedRequests, errorCount>>
       ELSE /\ s_pc' = "wait" /\ s_msg' = ZeroMsg
            /\ processedRequests' = countedRequests(processedRequests)
            /\ IF ~isValidRequest(s_msg.data)
               THEN /\ \E ok \in IOOutcomes :
                         writeMessage(ok, Msg(RESPONSE, 0, strncpy255(ERR_INVALID_FORMAT)))
                    /\ errorCount' = errorCount + 1
               ELSE LET r == processRequest(s_msg.data) IN
                    \E ok \in IOOutcomes :
                      /\ writeMessage(ok, Msg(RESPONSE, 0, strncpy255(r.response)))
                      /\ errorCount' = errorCount + (IF r.error THEN 1 ELSE 0)
                                                  + (IF ok THEN 0 ELSE 1)
    /\ UNCHANGED s_running
    /\ UNCHANGED multiSrvVars /\ UNCHANGED cliVars /\ UNCHANGED envVars

\* lines 423-437: the shutdown notice; the file is left in place
SS_Shutdown ==
    /\ variant = "single" /\ s_pc = "shutdown"
    /\ \E ok \in IOOutcomes : writeMessage(ok, Msg(FREE, 0, strncpy255(SERVER_SHUTDOWN)))
    /\ s_pc' = "stopped"
    /\ UNCHANGED <<s_running, s_msg>>
    /\ UNCHANGED multiSrvVars /\ UNCHANGED singleSrvVars
    /\ UNCHANGED cliVars /\ UNCHANGED envVars

---------------------------------------------------------------------------
(* The single-mailbox client (src/unnamed/part_000)                        *)

\* what the user types at the request prompt (getInputFromUser lets them through)
UserInputs == { <<"h","i">>, <<"e","r","r","o","r">>, <<"t","i","m","e","o","u","t">>, <<"c","r","a","s","h">>, <<"i","n","v","a","l","i","d">> }

\* a faulty budget test that would give up one read earlier
busyAtBudget(n) == n >= MAX_WAIT_ATTEMPTS_SINGLE

\* line 147: if (++waitAttempts > MAX_WAIT_ATTEMPTS)
busyAfterSingle(n) == n > MAX_WAIT_ATTEMPTS_SINGLE

\* lines 130-167: step 1, WAIT_FOR_FREE, one iteration; at the busy prompt the
\* user retries (Enter) or types exit
SC_WaitForFree(c) ==
    /\ variant = "single" /\ c_pc[c] = "wff"
    /\ IF ~c_running[c]
       THEN /\ c_pc' = [c_pc EXCEPT ![c] = "exit"]
            /\ UNCHANGED <<waitAttempts, c_running, c_outcome>>
       ELSE \E ok \in IOOutcomes :
              IF ~ok THEN UNCHANGED <<c_pc, waitAttempts, c_running, c_outcome>>
              ELSE IF mailbox.status = FREE
              THEN /\ c_pc' = [c_pc EXCEPT ![c] = "input"]
                   /\ waitAttempts' = [waitAttempts EXCEPT ![c] = 0]
                   /\ UNCHANGED <<c_running, c_outcome>>
              ELSE IF busyAfterSingle(waitAttempts[c] + 1)
              THEN /\ waitAttempts' = [waitAttempts EXCEPT ![c] = @ + 1]
                   /\ Outcome(c, "busy")
                   /\ \/ /\ c_running' = [c_running EXCEPT ![c] = FALSE]
                         /\ c_pc' = [c_pc EXCEPT ![c] = "exit"]
                      \/ /\ c_pc' = [c_pc EXCEPT ![c] = "busy"]
                         /\ UNCHANGED c_running
              ELSE /\ waitAttempts' = [waitAttempts EXCEPT ![c] = @ + 1]
                   /\ UNCHANGED <<c_pc, c_running, c_outcome>>
    /\ UNCHANGED <<mailbox, currentClientId, c_cmd, gotResponse, requestCounter>>
    /\ UNCHANGED srvVars /\ UNCHANGED envVars

\* lines 160-161: Enter at the busy prompt: waitAttempts = 0; continue
SC_Retry(c) ==
    /\ variant = "single" /\ c_pc[c] = "busy"
    /\ c_pc' = [c_pc EXCEPT ![c] = "wff"]
    /\ waitAttempts' = [waitAttempts EXCEPT ![c] = 0]
    /\ Outcome(c, "none")
    /\ UNCHANGED <<mailbox, c_running, currentClientId, c_cmd, gotResponse, requestCounter>>
    /\ UNCHANGED srvVars /\ UNCHANGED envVars

\* line 175: "[" + std::to_string(requestCounter) + "] " + userInput
fullRequest(n, userInput) == <<"[">> \o to_string(n) \o <<"]", " ">> \o userInput

\* lines 169-188: steps 2 and 3, the user's input and SEND
SC_Send(c) ==
    /\ variant = "single" /\ c_pc[c] = "input"
    /\ \/ /\ c_running' = [c_running EXCEPT ![c] = FALSE]
          /\ c_pc' = [c_pc EXCEPT ![c] = "exit"]
          /\ UNCHANGED <<mailbox, c_cmd, requestCounter, c_outcome>>
       \/ /\ requestCounter < MaxRequests
          /\ \E userInput \in UserInputs :
               IF ~c_running[c]
               THEN /\ c_pc' = [c_pc EXCEPT ![c] = "exit"]
                    /\ UNCHANGED <<mailbox, c_cmd, requestCounter, c_running, c_outcome>>
               ELSE /\ requestCounter' = requestCounter + 1
                    /\ Outcome(c, "none")
                    /\ UNCHANGED c_running
                    /\ \E ok \in IOOutcomes :
                         /\ writeMessage(ok, Msg(REQUEST, 0,
                               strncpy255(fullRequest(requestCounter + 1, userInput))))
                         /\ c_pc' = [c_pc EXCEPT ![c] = IF ok THEN "await" ELSE "wff"]
                         /\ c_cmd' = [c_cmd EXCEPT ![c] = IF ok THEN userInput ELSE <<>>]
    /\ UNCHANGED <<currentClientId, waitAttempts, gotResponse>>
    /\ UNCHANGED srvVars /\ UNCHANGED envVars

\* lines 193-230: step 4, AWAIT_RESPONSE (10 s), one iteration
SC_Await(c) ==
    /\ variant = "single" /\ c_pc[c] = "await"
    /\ IF ~c_running[c]
       THEN /\ c_pc' = [c_pc EXCEPT ![c] = "exit"]
            /\ c_cmd' = [c_cmd EXCEPT ![c] = <<>>]
            /\ Outcome(c, "stopped")
            /\ UNCHANGED gotResponse
       ELSE \E ok \in IOOutcomes, expired \in BOOLEAN :
              IF ~ok THEN UNCHANGED <<c_pc, c_cmd, gotResponse, c_outcome>>
              ELSE IF mailbox.status = RESPONSE
              THEN /\ c_pc' = [c_pc EXCEPT ![c] = "free"]
                   /\ gotResponse' = [gotResponse EXCEPT ![c] = TRUE]
                   /\ Outcome(c, "response")
                   /\ UNCHANGED c_cmd
              ELSE IF expired
              THEN /\ c_pc' = [c_pc EXCEPT ![c] = "timeout"]
                   /\ Outcome(c, "timeout")
                   /\ UNCHANGED <<c_cmd, gotResponse>>
              ELSE UNCHANGED <<c_pc, c_cmd, gotResponse, c_outcome>>
    /\ UNCHANGED <<mailbox, c_running, currentClientId, waitAttempts, requestCounter>>
    /\ UNCHANGED srvVars /\ UNCHANGED envVars

\* lines 221-222 / 240-241 / 253-255: the record the client resets the mailbox to
resetRecordSingle == Msg(FREE, 0, <<>>)

\* lines 219-225: the timeout-triggered reset
SC_TimeoutReset(c) ==
    /\ variant = "single" /\ c_pc[c] = "timeout"
    /\ \E ok \in IOOutcomes : writeMessage(ok, resetRecordSingle)
    /\ c_pc' = [c_pc EXCEPT ![c] = "wff"]
    /\ c_cmd' = [c_cmd EXCEPT ![c] = <<>>]
    /\ UNCHANGED <<c_running, currentClientId, waitAttempts, gotResponse, requestCounter>>
    /\ UNCHANGED srvVars /\ UNCHANGED envVars
    /\ UNCHANGED c_outcome

\* lines 232-246: steps 5 and 6, the response is shown and the server freed
SC_Free(c) ==
    /\ variant = "single" /\ c_pc[c] = "free"
    /\ \E ok \in IOOutcomes : writeMessage(ok, resetRecordSingle)
    /\ c_pc' = [c_pc EXCEPT ![c] = "wff"]
    /\ c_cmd' = [c_cmd EXCEPT ![c] = <<>>]
    /\ gotResponse' = [gotResponse EXCEPT ![c] = FALSE]
    /\ UNCHANGED <<c_running, currentClientId, waitAttempts, requestCounter>>
    /\ UNCHANGED srvVars /\ UNCHANGED envVars
    /\ UNCHANGED c_outcome

\* lines 249-261: graceful shutdown, "Free server before exiting"
SC_Exit(c) ==
    /\ variant = "single" /\ c_pc[c] = "exit"
    /\ \E ok \in IOOutcomes : writeMessage(ok, resetRecordSingle)
    /\ c_pc' = [c_pc EXCEPT ![c] = "stopped"]
    /\ UNCHANGED <<c_running, currentClientId, waitAttempts, c_cmd, gotResponse,
                   requestCounter>>
    /\ UNCHANGED srvVars /\ UNCHANGED envVars
    /\ UNCHANGED c_outcome

---------------------------------------------------------------------------
(* The single-mailbox deployment: the server and one client on ipc.bin     *)

InitSingle ==
    /\ variant = "single"
    /\ ioFaults \in BOOLEAN
    /\ mailbox = ZeroMsg
    /\ s_pc = "wait" /\ s_running = TRUE /\ s_msg = ZeroMsg
    /\ nextClientId = 1 /\ connectedClients = {} /\ clientCounter = 0
    /\ fileLinked = TRUE
    /\ serverInstanceNumber = 1
    /\ c_pc = [c \in Clients |-> "wff"]
    /\ c_running = [c \in Clients |-> TRUE]
    /\ currentClientId = [c \in Clients |-> 0]
    /\ waitAttempts = [c \in Clients |-> 0]
    /\ c_cmd = [c \in Clients |-> <<>>]
    /\ gotResponse = [c \in Clients |-> FALSE]
    /\ processedRequests = 0 /\ errorCount = 0 /\ requestCounter = 0
    /\ c_outcome = [c \in Clients |-> "none"]
    /\ h_new = 0
    /\ CodecOff /\ DirOff /\ AwaitOff

NextSingle ==
    \/ SS_WaitForRequest \/ SS_Respond \/ SS_Shutdown
    \/ S_Signal
    \/ \E c \in Clients :
         \/ SC_WaitForFree(c) \/ SC_Retry(c) \/ SC_Send(c) \/ SC_Await(c)
         \/ SC_TimeoutReset(c) \/ SC_Free(c) \/ SC_Exit(c)
         \/ C_Signal(c)

SpecSingle == InitSingle /\ [][NextSingle]_vars


---------------------------------------------------------------------------
(* Both deployments                                                        *)

Init == InitMulti \/ InitSingle

Next == NextMulti \/ NextSingle

Spec == Init /\ [][Next]_vars

---------------------------------------------------------------------------
(* A server driven by a requester that is not one of the two clients: any  *)
(* process that opens the file may write a REQUEST record with any id and  *)
(* any text.  It follows the protocol: it writes only onto FREE and frees  *)
(* the mailbox once it has seen the RESPONSE.                              *)

MaxForeignId == 2

\* request texts offered to the multi-instance server
PingTexts ==
    { PING, <<"P","I","N","G">>, <<" ","p","i","n","g"," ">>, <<"\t","P","i","N","g","\n">>,
      <<"P","O","N","G">>, <<"p","i","n">>, <<"p","i","n","g","x">>, <<"p"," ","i","n","g">>,
      <<" "," ">>, <<>> }

\* request texts offered to the single-mailbox server
RequestTexts ==
    { <<>>, <<"a","b","c">>, <<"[","1","]">>, <<"a","b","c","d">>,
      <<"[","1","]"," ","h","i">>, <<"[","2","]"," ","e","r","r","o","r">>,
      <<"[","x","]"," ","h","i">>, <<"[","1","]","h","i">>,
      <<"[","3","]"," ","t","i","m","e","o","u","t">>,
      <<"[","4","]"," ","i","n","v","a","l","i","d">>,
      <<"[","-","1","]"," ","h","i">> }

ForeignTexts == IF variant = "multi" THEN PingTexts ELSE RequestTexts

ForeignIds == IF variant = "multi" THEN 0..MaxForeignId ELSE {0}

\* a REQUEST record written onto a FREE mailbox
H_Request ==
    /\ mailbox.status = FREE /\ s_pc \notin {"stopped", "shutdown"}
    /\ \E id \in ForeignIds, text \in ForeignTexts :
         LET counted == variant = "multi" /\ id = 0 /\ isValidPingRequest(text)
         IN  /\ counted => h_new < MaxClientId
             /\ mailbox' = Msg(REQUEST, id, strncpy255(text))
             /\ h_new' = IF counted THEN h_new + 1 ELSE h_new
    /\ UNCHANGED <<variant, ioFaults, codecVars, dirVars, awaitVars>> /\ UNCHANGED srvVars /\ UNCHANGED cliVars

\* the RESPONSE is taken and the mailbox freed, the response's id kept
H_Consume ==
    /\ mailbox.status = RESPONSE
    /\ mailbox' = resetRecord(mailbox.client_id)
    /\ UNCHANGED envVars /\ UNCHANGED srvVars /\ UNCHANGED cliVars

InitServer ==
    /\ variant \in {"multi", "single"}
    /\ ioFaults \in BOOLEAN
    /\ mailbox = ZeroMsg
    /\ s_pc = "wait" /\ s_running = TRUE /\ s_msg = ZeroMsg
    /\ nextClientId = 1 /\ connectedClients = {} /\ clientCounter = 0
    /\ fileLinked = TRUE
    /\ serverInstanceNumber \in 1..MaxInstance
    /\ c_pc = [c \in Clients |-> "off"]
    /\ c_running = [c \in Clients |-> FALSE]
    /\ currentClientId = [c \in Clients |-> 0]
    /\ waitAttempts = [c \in Clients |-> 0]
    /\ c_cmd = [c \in Clients |-> <<>>]
    /\ gotResponse = [c \in Clients |-> FALSE]
    /\ processedRequests = 0 /\ errorCount = 0 /\ requestCounter = 0
    /\ c_outcome = [c \in Clients |-> "none"]
    /\ h_new = 0
    /\ CodecOff /\ DirOff /\ AwaitOff

NextServer ==
    \/ MS_WaitForRequest \/ MS_Respond \/ MS_Shutdown
    \/ SS_WaitForRequest \/ SS_Respond \/ SS_Shutdown
    \/ S_Signal
    \/ H_Request \/ H_Consume

SpecServer == InitServer /\ [][NextServer]_vars


---------------------------------------------------------------------------
(* readMessage / writeMessage on the bytes of the file (server.cpp and     *)
(* client.cpp have the same two functions).  A Message in memory is its    *)
(* status, its client_id and the 256 chars of data, each char a code       *)
(* 0..255; its image is what write(fd, &msg, sizeof(Message)) hands over:  *)
(* two 4-byte little-endian two's-complement ints and the data.            *)

SIZEOF_INT == 4

sizeofMessage == SIZEOF_INT + SIZEOF_INT + DATA_SIZE

INT_MIN == (-2147483647) - 1

\* the four bytes of an int
encodeInt(v) ==
    LET neg == v < 0
        w   == IF neg THEN (v + 2147483647) + 1 ELSE v
    IN  << w % 256, (w \div 256) % 256, (w \div 65536) % 256,
           (w \div 16777216) + (IF neg THEN 128 ELSE 0) >>

\* a faulty decoding that would take the bytes in network order
decodeIntBigEndian(b) ==
    LET neg == b[1] >= 128
        w   == b[4] + 256 * b[3] + 65536 * b[2]
                 + 16777216 * (b[1] - (IF neg THEN 128 ELSE 0))
    IN  IF neg THEN (w - 2147483647) - 1 ELSE w

\* the int in four bytes
decodeInt(b) ==
    LET neg == b[4] >= 128
        w   == b[1] + 256 * b[2] + 65536 * b[3]
                 + 16777216 * (b[4] - (IF neg THEN 128 ELSE 0))
    IN  IF neg THEN (w - 2147483647) - 1 ELSE w

\* the bytes of a Message as it lies in memory
image(msg) == encodeInt(msg.status) \o encodeInt(msg.client_id) \o msg.data

\* the Message that lies in sizeof(Message) bytes
fromImage(b) ==
    [ status    |-> decodeInt(SubSeq(b, 1, SIZEOF_INT)),
      client_id |-> decodeInt(SubSeq(b, SIZEOF_INT + 1, 2 * SIZEOF_INT)),
      data      |-> SubSeq(b, 2 * SIZEOF_INT + 1, sizeofMessage) ]

\* n bytes copied over the start of old
overlay(old, new) ==
    [ i \in 1..(IF Len(old) > Len(new) THEN Len(old) ELSE Len(new)) |->
        IF i <= Len(new) THEN new[i] ELSE old[i] ]

\* data zero-filled behind the text (Message msg{}; strncpy)
padded(text) == text \o [ i \in 1..(DATA_SIZE - Len(text)) |-> 0 ]

\* std::memset(&msg, 0, sizeof(Message))
zeroMessage == [ status |-> 0, client_id |-> 0, data |-> padded(<<>>) ]

\* the C string held in data: the chars before the first NUL
cstring(data) ==
    LET nuls == { i \in 1..Len(data) : data[i] = 0 }
    IN  IF nuls = {} THEN data
        ELSE SubSeq(data, 1, (CHOOSE i \in nuls : \A j \in nuls : i <= j) - 1)

\* a short count that write() or a truncated file can yield
PartialCount == 100

\* texts as char codes: "", "ping", 255 chars, a text with stale chars behind
\* its NUL, a text of chars above 127
CodecTexts ==
    { padded(<<>>), padded(<<112, 105, 110, 103>>),
      padded([ i \in 1..(DATA_SIZE - 1) |-> 97 ]),
      <<112, 111, 110, 103, 0, 120, 121>> \o [ i \in 1..(DATA_SIZE - 7) |-> 0 ],
      padded(<<200, 255, 128>>) }

CodecIds == { 0, 1, 255, 256, 65537, INT_MAX, -1, INT_MIN }

CodecMessages ==
    [ status : {FREE, REQUEST, RESPONSE}, client_id : CodecIds, data : CodecTexts ]

\* the messages of a second write
CodecMessagesAgain ==
    [ status : {REQUEST}, client_id : {0, 258}, data : { padded(<<>>), padded(<<112, 111>>) } ]

\* what lseek, write(fd, &msg, sizeof(Message)) and fsync can give: lseek
\* failing, write failing, or n bytes written and fsync succeeding or not
writeReturns ==
    IF ioFaults
    THEN { [seek |-> FALSE, n |-> 0, sync |-> TRUE], [seek |-> TRUE, n |-> -1, sync |-> TRUE] }
           \cup [ seek : {TRUE}, n : {0, PartialCount, sizeofMessage}, sync : BOOLEAN ]
    ELSE { [seek |-> TRUE, n |-> sizeofMessage, sync |-> TRUE] }

\* a faulty result that would take any write that did not fail for complete
writeResultLenient(w) == w # -1

\* lines 93-98: if (w == -1) return false; ... return (w == sizeof(Message))
writeResult(w) == IF w = -1 THEN FALSE ELSE (w = sizeofMessage)

\* lines 87-99: writeMessage
K_Write ==
    /\ variant = "codec" /\ k_pc = "write"
    /\ \E sys \in writeReturns :
         /\ k_wsys' = sys
         /\ file' = IF ~sys.seek \/ sys.n = -1 THEN file
                    ELSE overlay(file, SubSeq(image(k_in), 1, sys.n))
         /\ k_w' = IF ~sys.seek THEN FALSE ELSE writeResult(sys.n)
    /\ k_pc' = "read"
    /\ UNCHANGED <<k_in, k_out, k_r, k_again, k_rsys>>
    /\ UNCHANGED <<variant, ioFaults, h_new, mailbox, dirVars, awaitVars>> /\ UNCHANGED srvVars /\ UNCHANGED cliVars

\* what lseek and read(fd, &msg, sizeof(Message)) can give: lseek failing,
\* read failing, or the bytes the file holds, at most sizeof(Message)
readReturns ==
    (IF ioFaults
     THEN { [seek |-> FALSE, n |-> 0, sync |-> TRUE], [seek |-> TRUE, n |-> -1, sync |-> TRUE] }
     ELSE {})
      \cup { [seek |-> TRUE, sync |-> TRUE,
              n |-> IF Len(file) < sizeofMessage THEN Len(file) ELSE sizeofMessage] }

\* a faulty result that would take a short read for a record
readResultLenient(r) == r # -1

\* lines 75-84: -1 fails, 0 succeeds, otherwise r == sizeof(Message)
readResult(r) == IF r = -1 THEN FALSE ELSE IF r = 0 THEN TRUE ELSE (r = sizeofMessage)

\* lines 69-85: readMessage
K_Read ==
    /\ variant = "codec" /\ k_pc = "read"
    /\ \E sys \in readReturns :
         /\ k_rsys' = sys
         /\ k_out' = IF ~sys.seek \/ sys.n = -1 THEN k_out
                     ELSE IF sys.n = 0 THEN zeroMessage
                     ELSE fromImage(overlay(image(k_out), SubSeq(file, 1, sys.n)))
         /\ k_r' = IF ~sys.seek THEN FALSE ELSE readResult(sys.n)
    /\ k_pc' = "done"
    /\ UNCHANGED <<file, k_in, k_w, k_again, k_wsys>>
    /\ UNCHANGED <<variant, ioFaults, h_new, mailbox, dirVars, awaitVars>> /\ UNCHANGED srvVars /\ UNCHANGED cliVars

\* the caller goes on to write a second message over the file
K_Again ==
    /\ variant = "codec" /\ k_pc = "done" /\ ~k_again
    /\ k_in' \in CodecMessagesAgain
    /\ k_out' = zeroMessage
    /\ k_pc' = "write" /\ k_again' = TRUE
    /\ UNCHANGED <<file, k_w, k_r, k_wsys, k_rsys>>
    /\ UNCHANGED <<variant, ioFaults, h_new, mailbox, dirVars, awaitVars>> /\ UNCHANGED srvVars /\ UNCHANGED cliVars

InitCodec ==
    /\ variant = "codec"
    /\ ioFaults \in BOOLEAN
    /\ mailbox = ZeroMsg
    /\ s_pc = "off" /\ s_running = FALSE /\ s_msg = ZeroMsg
    /\ nextClientId = 1 /\ connectedClients = {} /\ clientCounter = 0
    /\ fileLinked = TRUE
    /\ serverInstanceNumber = 1
    /\ c_pc = [c \in Clients |-> "off"]
    /\ c_running = [c \in Clients |-> FALSE]
    /\ currentClientId = [c \in Clients |-> 0]
    /\ waitAttempts = [c \in Clients |-> 0]
    /\ c_cmd = [c \in Clients |-> <<>>]
    /\ gotResponse = [c \in Clients |-> FALSE]
    /\ processedRequests = 0 /\ errorCount = 0 /\ requestCounter = 0
    /\ c_outcome = [c \in Clients |-> "none"]
    /\ h_new = 0
    /\ file = <<>> /\ k_pc = "write" /\ k_in \in CodecMessages /\ k_out = zeroMessage
    /\ k_w = FALSE /\ k_r = FALSE /\ k_again = FALSE
    /\ k_wsys = NoCall /\ k_rsys = NoCall
    /\ DirOff /\ AwaitOff

NextCodec == K_Write \/ K_Read \/ K_Again

SpecCodec == InitCodec /\ [][NextCodec]_vars

---------------------------------------------------------------------------
(* The shared directory: servers name their mailbox file after the files   *)
(* they find (server.cpp findMaxServerNumber, main), clients pick a file   *)
(* from those they find (client.cpp findServerFiles, autoConnectToServer). *)
(* A file name is the sequence of its characters.                          *)

SERVER_FILE_PREFIX == <<"i","p","c","_","s","e","r","v","e","r","_">>

DOT_BIN == <<".","b","i","n">>

\* std::string::find: the first position at which sub occurs, 0 for npos
find(str, sub) ==
    LET at == { i \in 1..(Len(str) - Len(sub) + 1) : SubSeq(str, i, i + Len(sub) - 1) = sub }
    IN  IF at = {} THEN 0 ELSE CHOOSE i \in at : \A j \in at : i <= j

\* server.cpp line 195: SERVER_FILE_PREFIX + std::to_string(n) + ".bin"
serverFileName(n) == SERVER_FILE_PREFIX \o to_string(n) \o DOT_BIN

\* the characters of file names in the order of their codes
CharTable == <<" ", "+", "-", ".">> \o Digits \o UpperCase \o <<"_">> \o LowerCase

charCode(ch) == CHOOSE i \in 1..Len(CharTable) : CharTable[i] = ch

\* std::string operator<
stringLess(a, b) ==
    \/ \E i \in 1..Len(a) :
         /\ i <= Len(b) /\ charCode(a[i]) < charCode(b[i])
         /\ \A j \in 1..(i - 1) : a[j] = b[j]
    \/ Len(a) < Len(b) /\ SubSeq(b, 1, Len(a)) = a

\* client.cpp lines 115-118: the text between the prefix and the first '.'
numStr(filename) ==
    LET rest == SubSeq(filename, Len(SERVER_FILE_PREFIX) + 1, Len(filename))
        dot  == find(rest, <<".">>)
    IN  IF dot = 0 THEN rest ELSE SubSeq(rest, 1, dot - 1)

\* client.cpp lines 114-127: the comparison handed to std::sort
comp(a, b) ==
    LET numA == stoi(numStr(a))
        numB == stoi(numStr(b))
    IN  IF numA.ok /\ numB.ok THEN numA.value > numB.value ELSE stringLess(a, b)

\* client.cpp lines 92-93: the files findServerFiles keeps
isServerFile(filename) ==
    find(filename, SERVER_FILE_PREFIX) = 1 /\ find(filename, DOT_BIN) # 0

\* the comparisons of the files kept, each made once
compTable(files) == [a \in files, b \in files |-> comp(a, b)]

\* less is a strict weak ordering of these files, as std::sort requires
strictWeakOrdering(files, less) ==
    LET equiv(a, b) == ~less[a, b] /\ ~less[b, a] IN
    /\ \A a \in files : ~less[a, a]
    /\ \A a, b, c \in files : (less[a, b] /\ less[b, c]) => less[a, c]
    /\ \A a, b, c \in files : (equiv(a, b) /\ equiv(b, c)) => equiv(a, c)

\* what std::sort guarantees of its result: no element is less than one
\* placed before it (files that compare equivalent come in any order)
sorted(files, less) ==
    \A i, j \in 1..Len(files) : i < j => ~less[files[j], files[i]]

\* the orders in which a set of files can be arranged
RECURSIVE Perms(_)
Perms(files) ==
    IF files = {} THEN { <<>> }
    ELSE UNION { { <<f>> \o p : p \in Perms(files \ {f}) } : f \in files }

\* client.cpp lines 83-131: what findServerFiles can return for the names in
\* the directory; std::sort has undefined behaviour when the comparison is
\* no ordering of the files kept, and then any arrangement can come out
findServerFiles(names) ==
    UNION { UNION { IF strictWeakOrdering(kept, less)
                    THEN { files \in Perms(kept) : sorted(files, less) }
                    ELSE Perms(kept)
                    : less \in { compTable(kept) } }
            : kept \in { { f \in names : isServerFile(f) } } }

\* server.cpp lines 131-144: the number a file contributes to the maximum
numberOf(filename) ==
    IF find(filename, SERVER_FILE_PREFIX) # 1 THEN 0
    ELSE LET rest   == SubSeq(filename, Len(SERVER_FILE_PREFIX) + 1, Len(filename))
             dotPos == find(rest, <<".">>)
         IN  IF dotPos = 0 THEN 0
             ELSE LET num == stoi(SubSeq(rest, 1, dotPos - 1))
                  IN  IF num.ok /\ num.value > 0 THEN num.value ELSE 0

\* server.cpp lines 121-177: findMaxServerNumber over the files present
findMaxServerNumber(files) ==
    LET nums == {0} \cup { numberOf(f) : f \in files }
    IN  CHOOSE m \in nums : \A k \in nums : k <= m

\* what a file of the directory holds: a whole record with one of the three
\* statuses, no bytes at all, fewer bytes than a record, or the file cannot
\* be opened by the client
FileContents == {"free", "request", "response", "empty", "short", "locked"}

\* client.cpp lines 133-149: checkServerAvailability of a file holding content
checkServerAvailability(content) ==
    IF content = "locked" THEN FALSE                    \* open fails
    ELSE IF content = "short" THEN FALSE                \* readMessage fails
    ELSE LET status == CASE content = "empty"    -> 0   \* readMessage zeroes msg
                         [] content = "free"     -> FREE
                         [] content = "request"  -> REQUEST
                         [] content = "response" -> RESPONSE
         IN  status = 0 \/ status = 2

\* client.cpp lines 152-174: what autoConnectToServer returns for the sorted
\* files, "" when none is available
firstAvailable(files, directory) ==
    LET available(f) == checkServerAvailability(directory[f])
        availableServers == SelectSeq(files, available)
    IN  IF availableServers = <<>> THEN <<>> ELSE availableServers[1]

\* a faulty numbering that would take the largest number found again
nextInstanceNumberSame(maxServerNumber) ==
    IF maxServerNumber = 0 THEN 1 ELSE maxServerNumber

\* server.cpp line 192: serverInstanceNumber = maxServerNumber + 1
nextInstanceNumber(maxServerNumber) == maxServerNumber + 1

DServers == {"s1", "s2"}
MaxStarts == 2
MaxForeignFiles == 3

ForeignName(suffix) == SERVER_FILE_PREFIX \o suffix
F_2    == ForeignName(<<"2">> \o DOT_BIN)
F_5    == ForeignName(<<"5">> \o DOT_BIN)
F_big  == ForeignName(<<"3", "0", "0", "0", "0", "0", "0", "0", "0", "0">> \o DOT_BIN)
F_abc  == ForeignName(<<"a", "b", "c">> \o DOT_BIN)
F_none == ForeignName(DOT_BIN)
F_txt  == ForeignName(<<"4", ".", "t", "x", "t">>)

\* files that are in the directory before the first server of a run starts,
\* with what each of them may hold
ForeignFiles == {F_2, F_5, F_big, F_abc, F_none, F_txt}
ForeignContents(f) ==
    IF f = F_5 THEN FileContents
    ELSE IF f = F_2 THEN {"free", "request"}
    ELSE IF f \in {F_abc, F_none} THEN {"empty"}
    ELSE {"free"}

\* the directory without file f / with file f holding content
removeFile(directory, f) == [g \in DOMAIN directory \ {f} |-> directory[g]]
putFile(directory, f, content) ==
    [g \in DOMAIN directory \cup {f} |-> IF g = f THEN content ELSE directory[g]]

dirOthers == <<variant, ioFaults, mailbox, srvVars, cliVars, h_new, codecVars, awaitVars>>

\* server.cpp lines 190-195: findMaxServerNumber and the choice of the number
D_Scan(s) ==
    /\ variant = "directory" /\ d_spc[s] = "idle"
    /\ Len(d_started) + Cardinality({t \in DServers : d_spc[t] = "scanned"}) < MaxStarts
    /\ d_num' = [d_num EXCEPT ![s] = nextInstanceNumber(findMaxServerNumber(DOMAIN dir))]
    /\ d_spc' = [d_spc EXCEPT ![s] = "scanned"]
    /\ UNCHANGED <<dir, d_started, d_cpc, serverFiles, d_result>>
    /\ UNCHANGED dirOthers

\* server.cpp lines 199-223: open with O_CREAT | O_EXCL, else open the file
\* that exists; write the initial record when the file is shorter than one
D_Create(s) ==
    LET currentFileName == serverFileName(d_num[s]) IN
    /\ variant = "directory" /\ d_spc[s] = "scanned"
    /\ IF currentFileName \in DOMAIN dir /\ dir[currentFileName] = "locked"
       THEN /\ d_spc' = [d_spc EXCEPT ![s] = "idle"]      \* return 1
            /\ d_num' = [d_num EXCEPT ![s] = 0]
            /\ UNCHANGED <<dir, d_started>>
       ELSE /\ dir' = IF currentFileName \notin DOMAIN dir
                         \/ dir[currentFileName] \in {"empty", "short"}
                      THEN putFile(dir, currentFileName, "free")
                      ELSE dir
            /\ d_spc' = [d_spc EXCEPT ![s] = "running"]
            /\ d_started' = Append(d_started, d_num[s])
            /\ UNCHANGED d_num
    /\ UNCHANGED <<d_cpc, serverFiles, d_result>>
    /\ UNCHANGED dirOthers

\* server.cpp lines 306-322: the shutdown record is written through the
\* open descriptor and cleanupServerFile unlinks currentFileName
D_Shutdown(s) ==
    /\ variant = "directory" /\ d_spc[s] = "running"
    /\ dir' = removeFile(dir, serverFileName(d_num[s]))
    /\ d_spc' = [d_spc EXCEPT ![s] = "idle"]
    /\ d_num' = [d_num EXCEPT ![s] = 0]
    /\ UNCHANGED <<d_started, d_cpc, serverFiles, d_result>>
    /\ UNCHANGED dirOthers

\* a faulty discovery that would repair the files it cannot read
D_AutoConnectRepairing ==
    /\ variant = "directory" /\ d_cpc = "start"
    /\ \E files \in findServerFiles(DOMAIN dir) :
         /\ serverFiles' = files
         /\ d_result' = firstAvailable(files, dir)
    /\ dir' = [f \in DOMAIN dir |-> IF dir[f] \in {"empty", "short"} THEN "free" ELSE dir[f]]
    /\ d_cpc' = "done"
    /\ UNCHANGED <<d_spc, d_num, d_started>>
    /\ UNCHANGED dirOthers

\* client.cpp lines 152-174: autoConnectToServer
D_AutoConnect ==
    /\ variant = "directory" /\ d_cpc = "start"
    /\ \E files \in findServerFiles(DOMAIN dir) :
         /\ serverFiles' = files
         /\ d_result' = firstAvailable(files, dir)
    /\ d_cpc' = "done"
    /\ UNCHANGED <<dir, d_spc, d_num, d_started>>
    /\ UNCHANGED dirOthers

\* the client is started again
D_Again ==
    /\ variant = "directory" /\ d_cpc = "done"
    /\ d_cpc' = "start" /\ serverFiles' = <<>> /\ d_result' = <<>>
    /\ UNCHANGED <<dir, d_spc, d_num, d_started>>
    /\ UNCHANGED dirOthers

InitDirectory ==
    /\ variant = "directory"
    /\ ioFaults = FALSE
    /\ mailbox = ZeroMsg
    /\ s_pc = "off" /\ s_running = FALSE /\ s_msg = ZeroMsg
    /\ nextClientId = 1 /\ connectedClients = {} /\ clientCounter = 0
    /\ fileLinked = TRUE
    /\ serverInstanceNumber = 1
    /\ c_pc = [c \in Clients |-> "off"]
    /\ c_running = [c \in Clients |-> FALSE]
    /\ currentClientId = [c \in Clients |-> 0]
    /\ waitAttempts = [c \in Clients |-> 0]
    /\ c_cmd = [c \in Clients |-> <<>>]
    /\ gotResponse = [c \in Clients |-> FALSE]
    /\ processedRequests = 0 /\ errorCount = 0 /\ requestCounter = 0
    /\ c_outcome = [c \in Clients |-> "none"]
    /\ h_new = 0
    /\ CodecOff /\ AwaitOff
    /\ \E present \in SUBSET ForeignFiles :
         /\ Cardinality(present) <= MaxForeignFiles
         /\ dir \in { d \in [present -> FileContents] : \A f \in present : d[f] \in ForeignContents(f) }
    /\ d_spc = [s \in DServers |-> "idle"]
    /\ d_num = [s \in DServers |-> 0]
    /\ d_started = <<>>
    /\ d_cpc = "start" /\ serverFiles = <<>> /\ d_result = <<>>

\* The servers neither read nor write what autoConnectToServer returned, so
\* a server's step taken while the client holds the returned value commutes
\* with D_Again; only the order in which D_Again comes first is explored.
NextDirectory ==
    \/ d_cpc # "done" /\ \E s \in DServers : D_Scan(s) \/ D_Create(s) \/ D_Shutdown(s)
    \/ D_AutoConnect
    \/ D_Again

SpecDirectory == InitDirectory /\ [][NextDirectory]_vars

---------------------------------------------------------------------------
(* AWAIT_RESPONSE with its clock: the wait loop of either client after a   *)
(* REQUEST has been written, the steady_clock advancing by the sleep of    *)
(* each iteration (or more), the server answering and a signal arriving    *)
(* at any moment.                                                          *)

\* client.cpp:409
TIMEOUT_MS_MULTI == 5000
\* part_000:196
TIMEOUT_MS == 10000
\* client.cpp:412, part_000:201, 216: sleep_for(milliseconds(100))
SLEEP_MS == 100

timeoutOf(v) == IF v = "multi" THEN TIMEOUT_MS_MULTI ELSE TIMEOUT_MS

\* what one sleep_for(100 ms) may take on the steady clock
Sleeps == {SLEEP_MS, 2 * SLEEP_MS}

\* reads counted by the history variable
PollCap == 110

\* the clock is only compared with the timeout: values beyond it are one
slept(e, d) == IF e + d > timeoutOf(variant) THEN timeoutOf(variant) + SLEEP_MS ELSE e + d

\* client.cpp:391-413: one evaluation of the loop condition and one iteration
W_MultiPoll ==
    /\ variant = "multi" /\ w_pc = "poll" /\ w_polls < PollCap
    /\ IF ~w_running
       THEN w_pc' = "stopped" /\ UNCHANGED <<w_polls, w_elapsed>>
       ELSE \E ok \in IOOutcomes, d \in Sleeps :
              /\ w_polls' = w_polls + 1
              /\ IF ~ok
                 THEN w_pc' = "error" /\ UNCHANGED w_elapsed
                 ELSE IF w_status = RESPONSE
                 THEN w_pc' = "response" /\ UNCHANGED w_elapsed
                 ELSE IF w_elapsed > TIMEOUT_MS_MULTI
                 THEN w_pc' = "timeout" /\ UNCHANGED w_elapsed
                 ELSE w_elapsed' = slept(w_elapsed, d) /\ UNCHANGED w_pc
    /\ UNCHANGED <<w_status, w_running>>
    /\ UNCHANGED <<variant, ioFaults, h_new, mailbox, codecVars, dirVars>>
    /\ UNCHANGED srvVars /\ UNCHANGED cliVars

\* part_000:198-217: one evaluation of the loop condition and one iteration;
\* a failed read sleeps and continues without looking at the clock
W_SinglePoll ==
    /\ variant = "single" /\ w_pc = "poll" /\ w_polls < PollCap
    /\ IF ~w_running
       THEN w_pc' = "stopped" /\ UNCHANGED <<w_polls, w_elapsed>>
       ELSE \E ok \in IOOutcomes, d \in Sleeps :
              /\ w_polls' = w_polls + 1
              /\ IF ~ok
                 THEN w_elapsed' = slept(w_elapsed, d) /\ UNCHANGED w_pc
                 ELSE IF w_status = RESPONSE
                 THEN w_pc' = "response" /\ UNCHANGED w_elapsed
                 ELSE IF w_elapsed > TIMEOUT_MS
                 THEN w_pc' = "timeout" /\ UNCHANGED w_elapsed
                 ELSE w_elapsed' = slept(w_elapsed, d) /\ UNCHANGED w_pc
    /\ UNCHANGED <<w_status, w_running>>
    /\ UNCHANGED <<variant, ioFaults, h_new, mailbox, codecVars, dirVars>>
    /\ UNCHANGED srvVars /\ UNCHANGED cliVars

\* server.cpp:290-296, README.md:410-417: the server's reply reaches the file
W_ServerAnswers ==
    /\ w_pc = "poll" /\ w_status = REQUEST
    /\ w_status' = RESPONSE
    /\ UNCHANGED <<w_pc, w_polls, w_elapsed, w_running>>
    /\ UNCHANGED <<variant, ioFaults, h_new, mailbox, codecVars, dirVars>>
    /\ UNCHANGED srvVars /\ UNCHANGED cliVars

\* signalHandler of the client
W_Signal ==
    /\ w_pc = "poll" /\ w_running
    /\ w_running' = FALSE
    /\ UNCHANGED <<w_pc, w_polls, w_elapsed, w_status>>
    /\ UNCHANGED <<variant, ioFaults, h_new, mailbox, codecVars, dirVars>>
    /\ UNCHANGED srvVars /\ UNCHANGED cliVars

\* client.cpp:381-389, part_000:185-196: the REQUEST has just been written
InitAwait ==
    /\ variant \in {"multi", "single"}
    /\ ioFaults \in BOOLEAN
    /\ mailbox = ZeroMsg
    /\ s_pc = "off" /\ s_running = FALSE /\ s_msg = ZeroMsg
    /\ nextClientId = 1 /\ connectedClients = {} /\ clientCounter = 0
    /\ fileLinked = TRUE
    /\ serverInstanceNumber = 1
    /\ c_pc = [c \in Clients |-> "off"]
    /\ c_running = [c \in Clients |-> FALSE]
    /\ currentClientId = [c \in Clients |-> 0]
    /\ waitAttempts = [c \in Clients |-> 0]
    /\ c_cmd = [c \in Clients |-> <<>>]
    /\ gotResponse = [c \in Clients |-> FALSE]
    /\ processedRequests = 0 /\ errorCount = 0 /\ requestCounter = 0
    /\ c_outcome = [c \in Clients |-> "none"]
    /\ h_new = 0
    /\ CodecOff /\ DirOff
    /\ w_pc = "poll" /\ w_polls = 0 /\ w_elapsed = 0
    /\ w_status = REQUEST /\ w_running = TRUE

NextAwait == W_MultiPoll \/ W_SinglePoll \/ W_ServerAnswers \/ W_Signal

SpecAwait == InitAwait /\ [][NextAwait]_vars

---------------------------------------------------------------------------
(* Two multi-instance clients bound to the mailbox of one server, with a   *)
(* storage medium that does not fail and no signal delivered.              *)

RaceClients == {"c1", "c2"}

InitRace ==
    /\ variant = "multi"
    /\ ioFaults = FALSE
    /\ mailbox = ZeroMsg
    /\ s_pc = "wait" /\ s_running = TRUE /\ s_msg = ZeroMsg
    /\ nextClientId = 1 /\ connectedClients = {} /\ clientCounter = 0
    /\ fileLinked = TRUE
    /\ serverInstanceNumber = 1
    /\ c_pc = [c \in RaceClients |-> "prompt"]
    /\ c_running = [c \in RaceClients |-> TRUE]
    /\ currentClientId = [c \in RaceClients |-> 0]
    /\ waitAttempts = [c \in RaceClients |-> 0]
    /\ c_cmd = [c \in RaceClients |-> <<>>]
    /\ gotResponse = [c \in RaceClients |-> FALSE]
    /\ processedRequests = 0 /\ errorCount = 0 /\ requestCounter = 0
    /\ c_outcome = [c \in RaceClients |-> "none"]
    /\ h_new = 0
    /\ CodecOff /\ DirOff /\ AwaitOff

NextRace ==
    \/ MS_WaitForRequest \/ MS_Respond
    \/ \E c \in RaceClients :
         \/ MC_Prompt(c) \/ MC_WaitForFree(c) \/ MC_Send(c) \/ MC_Await(c)
         \/ MC_TimeoutReset(c) \/ MC_Free(c) \/ MC_Exit(c)
         \/ MC_ProbeRead(c) \/ MC_ProbeSend(c) \/ MC_ProbeAwait(c) \/ MC_ProbeReset(c)

SpecRace == InitRace /\ [][NextRace]_vars

---------------------------------------------------------------------------
(* The server as a running process: its loop iterations (a poll every 100  *)
(* ms, a retry after 1 s) and its shutdown sequence are steps the process  *)
(* keeps taking, so each of its actions is taken if it stays enabled.      *)

FairServer ==
    /\ WF_vars(MS_WaitForRequest) /\ WF_vars(MS_Respond) /\ WF_vars(MS_Shutdown)
    /\ WF_vars(SS_WaitForRequest) /\ WF_vars(SS_Respond) /\ WF_vars(SS_Shutdown)

SpecServerFair == SpecServer /\ FairServer

---------------------------------------------------------------------------
(* The undisturbed exchange: one multi-instance client and its server,     *)
(* every read and write succeeds, no signal is delivered, and the server's *)
(* reply arrives before the client's 5000 ms / 500 ms windows run out.     *)
(* Both processes keep being scheduled; the user may stay at the prompt.   *)

\* the id counter is capped: a session without an id is started only while one is left
idAvailable(c) == currentClientId[c] = 0 => nextClientId <= MaxClientId

\* client.cpp:240-286, 308-350: the prompt, left only by the user's input
E_Prompt(c) == idAvailable(c) /\ MC_Prompt(c)

\* client.cpp:386-413 with the timeout branch (line 409) never taken
E_Await(c) == MC_Await(c) /\ c_pc'[c] # "timeout"

\* client.cpp:193-211 with the 500 ms branch (line 207) never taken
E_ProbeAwait(c) == MC_ProbeAwait(c) /\ c_pc'[c] # "prompt"

InitExchange == InitMulti /\ ~ioFaults

NextExchange ==
    \/ MS_WaitForRequest \/ MS_Respond
    \/ \E c \in Clients :
         \/ E_Prompt(c) \/ MC_WaitForFree(c) \/ MC_Send(c) \/ E_Await(c)
         \/ MC_Free(c) \/ MC_Exit(c)
         \/ MC_ProbeRead(c) \/ MC_ProbeSend(c) \/ E_ProbeAwait(c) \/ MC_ProbeReset(c)

FairExchange ==
    /\ WF_vars(MS_WaitForRequest) /\ WF_vars(MS_Respond)
    /\ \A c \in Clients :
         /\ WF_vars(MC_WaitForFree(c)) /\ WF_vars(MC_Send(c)) /\ WF_vars(E_Await(c))
         /\ WF_vars(MC_Free(c)) /\ WF_vars(MC_Exit(c))
         /\ WF_vars(MC_ProbeRead(c)) /\ WF_vars(MC_ProbeSend(c))
         /\ WF_vars(E_ProbeAwait(c)) /\ WF_vars(MC_ProbeReset(c))

SpecExchange == InitExchange /\ [][NextExchange]_vars /\ FairExchange

---------------------------------------------------------------------------
(* The multi-instance deployment with both processes kept running and a    *)
(* user who keeps entering ping: timeouts, signals and I/O faults remain   *)
(* possible, only starvation of a process is excluded.                     *)

\* client.cpp:350-353: the user enters ping again
UserPings(c) == MC_Prompt(c) /\ c_pc'[c] = "wff"

FairMulti ==
    /\ WF_vars(MS_WaitForRequest) /\ WF_vars(MS_Respond) /\ WF_vars(MS_Shutdown)
    /\ \A c \in Clients :
         /\ WF_vars(UserPings(c))
         /\ WF_vars(MC_WaitForFree(c)) /\ WF_vars(MC_Send(c)) /\ WF_vars(MC_Await(c))
         /\ WF_vars(MC_TimeoutReset(c)) /\ WF_vars(MC_Free(c)) /\ WF_vars(MC_Exit(c))
         /\ WF_vars(MC_ProbeRead(c)) /\ WF_vars(MC_ProbeSend(c))
         /\ WF_vars(MC_ProbeAwait(c)) /\ WF_vars(MC_ProbeReset(c))

SpecMultiFair == SpecMulti /\ FairMulti

---------------------------------------------------------------------------
(* The multi-instance deployment with the client's CONNECT and DISCONNECT  *)
(* commands.  Two more positions of the client at its prompt: "detached"   *)
(* (fd == -1, currentFile empty) and "unbound" (fd == -1, currentFile      *)
(* still named, after a CONNECT that found no server).  The status command *)
(* is modelled at the bound prompt only.                                   *)

PromptPositions == {"prompt", "detached", "unbound"}

\* client.cpp:134-174: what autoConnectToServer can return with the one server file
serverFound ==
    IF fileLinked /\ mailbox.status \in {FREE, RESPONSE} THEN IOOutcomes ELSE {FALSE}

\* client.cpp:313-332: CONNECT
MC_Connect(c) ==
    /\ variant = "multi" /\ c_pc[c] \in PromptPositions /\ c_running[c]
    /\ \E found \in serverFound, opened \in IOOutcomes :
         IF found
         THEN /\ c_pc' = [c_pc EXCEPT ![c] = IF opened /\ fileLinked THEN "prompt" ELSE "detached"]
              /\ currentClientId' = [currentClientId EXCEPT ![c] = 0]
         ELSE /\ c_pc' = [c_pc EXCEPT ![c] = IF @ = "detached" THEN "detached" ELSE "unbound"]
              /\ UNCHANGED currentClientId
    /\ UNCHANGED <<mailbox, c_running, waitAttempts, c_cmd, gotResponse, c_outcome>>
    /\ UNCHANGED requestCounter /\ UNCHANGED srvVars /\ UNCHANGED envVars

\* client.cpp:334-343: DISCONNECT forgets the id only when a descriptor was open
MC_Disconnect(c) ==
    /\ variant = "multi" /\ c_pc[c] \in PromptPositions /\ c_running[c]
    /\ c_pc' = [c_pc EXCEPT ![c] = "detached"]
    /\ currentClientId' = [currentClientId EXCEPT ![c] = IF c_pc[c] = "prompt" THEN 0 ELSE @]
    /\ UNCHANGED <<mailbox, c_running, waitAttempts, c_cmd, gotResponse, c_outcome>>
    /\ UNCHANGED requestCounter /\ UNCHANGED srvVars /\ UNCHANGED envVars

\* client.cpp:350-384 with fd == -1: the read fails, the loop is left, the
\* write fails, "Failed to send ping."
MC_UnboundPing(c) ==
    /\ variant = "multi" /\ c_pc[c] = "unbound" /\ c_running[c]
    /\ c_outcome[c] # "sendfail"        \* a repeated failure changes nothing
    /\ Outcome(c, "sendfail")
    /\ UNCHANGED <<mailbox, c_pc, c_running, currentClientId, waitAttempts, c_cmd, gotResponse>>
    /\ UNCHANGED requestCounter /\ UNCHANGED srvVars /\ UNCHANGED envVars

\* client.cpp:308-311, 438-449 with fd == -1: the loop ends, nothing is written
MC_ExitDetached(c) ==
    /\ variant = "multi" /\ c_pc[c] \in {"detached", "unbound"}
    /\ c_pc' = [c_pc EXCEPT ![c] = "stopped"]
    /\ c_running' = [c_running EXCEPT ![c] = FALSE]
    /\ UNCHANGED <<mailbox, currentClientId, waitAttempts, c_cmd, gotResponse, c_outcome>>
    /\ UNCHANGED requestCounter /\ UNCHANGED srvVars /\ UNCHANGED envVars

NextSession ==
    \/ NextMulti
    \/ \E c \in Clients :
         MC_Connect(c) \/ MC_Disconnect(c) \/ MC_UnboundPing(c) \/ MC_ExitDetached(c)

SpecSession == InitMulti /\ [][NextSession]_vars

---------------------------------------------------------------------------
(* Properties.  A step is attributed to the code site that takes it by the *)
(* change of that process's position.                                      *)

\* the server finished RESPOND for the request it had picked up
ServerResponds == s_pc = "dispatch" /\ s_pc' = "wait"

\* the server wrote its shutdown notice
ServerShutsDown == s_pc = "shutdown" /\ s_pc' = "stopped"

\* client c took the step that starts at position `at`
ClientLeaves(c, at) == c_pc[c] = at /\ c_pc'[c] # at

\* the mailbox went from REQUEST to FREE in this step
RequestFreed == mailbox.status = REQUEST /\ mailbox'.status = FREE

\* C1 (amended): the status goes from REQUEST directly to FREE only through a
\* client's reset write (the timeout reset, the reset that ends an exchange,
\* the reset on exit, the probe's reset) or the server's shutdown notice; no
\* reply of the server and no SEND of a client frees a pending request.
C1_RequestFreedOnlyByResetOrShutdown ==
    [][ RequestFreed =>
          \/ ServerShutsDown
          \/ \E c \in Clients : \E at \in {"timeout", "free", "exit", "p_reset"} :
               ClientLeaves(c, at) ]_vars

\* C1 as stated: REQUEST goes to FREE only by the timeout-triggered reset
C1_RequestFreedOnlyByTimeoutReset ==
    [][ RequestFreed => \E c \in Clients : ClientLeaves(c, "timeout") ]_vars

\* a pending request of a client was overwritten by the shutdown notice of a
\* server that never replied
C1_Witness ==
    /\ variant = "multi" /\ ~ioFaults
    /\ s_pc = "stopped" /\ nextClientId = 1 /\ mailbox = shutdownRecord
    /\ \E c \in Clients : c_pc[c] = "await"

\* C2: every write of status RESPONSE lands on a record whose status is REQUEST
\* and every write of status REQUEST lands on a record whose status is FREE
\* (all writes succeeding)
C2_NoSkippedState ==
    [][ ~ioFaults =>
          /\ ServerResponds => mailbox.status = REQUEST
          /\ \A c \in Clients :
               (ClientLeaves(c, "send") \/ ClientLeaves(c, "p_send")
                  \/ (c_pc[c] = "input" /\ c_pc'[c] = "await"))
               => mailbox.status = FREE ]_vars

\* the decimal numerals of the server numbers in use
Numeral == <<"1", "2", "3", "4", "5", "6", "7", "8", "9">>

\* "pong from server #N to client #1"
C3_ExpectedPong ==
    <<"p","o","n","g"," ","f","r","o","m"," ","s","e","r","v","e","r"," ","#">>
      \o <<Numeral[serverInstanceNumber]>>
      \o <<" ","t","o"," ","c","l","i","e","n","t"," ","#","1">>

\* C3: the ping scenario on a fresh mailbox with a fresh server #N and a client
\* whose id is 0 (all writes succeeding): the client's "ping" is written as
\* REQUEST with id 0; the server answers it with RESPONSE, id 1 and
\* "pong from server #N to client #1"; the client reading that response takes
\* id 1; its reset leaves the mailbox FREE with id 1 and no payload.
C3_PingScenario ==
    [][ ~ioFaults => \A c \in Clients :
          /\ (ClientLeaves(c, "send") /\ currentClientId[c] = 0 /\ c_cmd[c] = PING)
             => mailbox' = Msg(REQUEST, 0, PING)
          /\ (ServerResponds /\ s_msg = Msg(REQUEST, 0, PING)
                /\ nextClientId = 1 /\ connectedClients = {})
             => mailbox' = Msg(RESPONSE, 1, C3_ExpectedPong)
          /\ (c_pc[c] = "await" /\ c_pc'[c] = "free" /\ c_running[c]
                /\ mailbox = Msg(RESPONSE, 1, C3_ExpectedPong) /\ currentClientId[c] = 0)
             => (currentClientId'[c] = 1 /\ gotResponse'[c])
          /\ (ClientLeaves(c, "free") /\ gotResponse[c] /\ currentClientId[c] = 1)
             => (mailbox' = Msg(FREE, 1, <<>>) /\ c_pc'[c] = "prompt") ]_vars

\* the scenario has run to its end
C3_Witness ==
    /\ variant = "multi" /\ ~ioFaults
    /\ nextClientId = 2 /\ connectedClients = {1}
    /\ mailbox = Msg(FREE, 1, <<>>)
    /\ \E c \in Clients :
         c_pc[c] = "prompt" /\ c_outcome[c] = "response" /\ currentClientId[c] = 1


\* C4: the k-th "ping" request with client_id 0 that one server handles, the
\* requests coming one after another, is answered with client_id k (all
\* writes succeeding)
C4_KthNewClientGetsIdK ==
    [][ (variant = "multi" /\ ~ioFaults /\ ServerResponds
           /\ s_msg.client_id = 0 /\ s_msg.data \in {PING, <<"P","I","N","G">>})
        => (mailbox'.status = RESPONSE /\ mailbox'.client_id = h_new) ]_vars

\* the third such request has been answered with id 3
C4_Witness ==
    /\ variant = "multi" /\ ~ioFaults
    /\ h_new = 3 /\ mailbox.status = RESPONSE /\ mailbox.client_id = 3

\* C5: an id the server allocates for a request with client_id 0 is not yet a
\* member of the known-clients set
C5_AllocatedIdIsNew ==
    [][ (variant = "multi" /\ ~ioFaults /\ ServerResponds /\ s_msg.client_id = 0
           /\ nextClientId' # nextClientId)
        => mailbox'.client_id \notin connectedClients ]_vars

CountedRead(c) == c_pc[c] = "wff" /\ waitAttempts'[c] = waitAttempts[c] + 1

\* C7 (amended): a read of WAIT_FOR_FREE that finds the mailbox taken writes
\* nothing, and the attempt is reported busy exactly at the 5th such read in
\* the multi-instance client and at the 51st in the single-mailbox client
C7_BusyAfterBudget ==
    [][ \A c \in Clients :
          CountedRead(c)
          => /\ mailbox' = mailbox
             /\ c_outcome'[c] = "busy"
                  <=> waitAttempts'[c] = (IF variant = "multi" THEN 5 ELSE 51) ]_vars

\* C7 as stated: the single-mailbox client reports busy at the 50th read
C7_BusyAtFiftiethRead ==
    [][ \A c \in Clients :
          CountedRead(c)
          => /\ mailbox' = mailbox
             /\ c_outcome'[c] = "busy"
                  <=> waitAttempts'[c] = (IF variant = "multi" THEN 5 ELSE 50) ]_vars

\* the single-mailbox client reported busy at its 51st read of a mailbox that
\* is still at REQUEST
C7_Witness ==
    /\ variant = "single" /\ mailbox.status = REQUEST
    /\ \E c \in Clients :
         c_pc[c] = "busy" /\ c_outcome[c] = "busy" /\ waitAttempts[c] = 51

Blank == {" ", "\t", "\n", "\r"}

RECURSIVE StripLeft(_)
StripLeft(t) == IF t # <<>> /\ Head(t) \in Blank THEN StripLeft(Tail(t)) ELSE t

RECURSIVE StripRight(_)
StripRight(t) ==
    IF t # <<>> /\ t[Len(t)] \in Blank THEN StripRight(SubSeq(t, 1, Len(t) - 1)) ELSE t

\* the text is "ping" once surrounding blanks are dropped and case is ignored
NormalisesToPing(text) ==
    LET t == StripRight(StripLeft(text))
    IN  /\ Len(t) = 4
        /\ t[1] \in {"p", "P"} /\ t[2] \in {"i", "I"}
        /\ t[3] \in {"n", "N"} /\ t[4] \in {"g", "G"}

\* C8: the multi-instance server answers a request whose text does not
\* normalise to "ping" with RESPONSE, "ERROR: Only 'ping' is accepted" and the
\* request's client_id, and leaves nextClientId, the known-clients set and
\* clientCounter as they were; a text that does normalise to "ping" is not
\* answered with that error
C8_OnlyPingAccepted ==
    [][ (variant = "multi" /\ ServerResponds)
        => IF NormalisesToPing(s_msg.data)
           THEN ~ioFaults => (mailbox'.status = RESPONSE /\ mailbox'.data # ERR_ONLY_PING)
           ELSE /\ ~ioFaults => mailbox' = Msg(RESPONSE, s_msg.client_id, ERR_ONLY_PING)
                /\ UNCHANGED <<nextClientId, connectedClients, clientCounter>> ]_vars

\* a request with the unseen id 2 and a text other than "ping" was answered
\* with the error, and 2 was not registered
C8_Witness ==
    /\ variant = "multi" /\ s_pc = "wait"
    /\ mailbox = Msg(RESPONSE, 2, ERR_ONLY_PING)
    /\ 2 \notin connectedClients /\ nextClientId = 1 /\ clientCounter = 0

C10_RoundTrip ==
    (k_pc = "done" /\ k_w)
    => /\ k_r \/ ioFaults
       /\ k_r => /\ k_out.status = k_in.status
                 /\ k_out.client_id = k_in.client_id
                 /\ cstring(k_out.data) = cstring(k_in.data)
                 /\ k_out.data = k_in.data

\* a RESPONSE with a negative id and the longest text went through
C10_Witness ==
    /\ k_pc = "done" /\ k_w /\ k_r
    /\ k_in.status = RESPONSE /\ k_in.client_id = INT_MIN
    /\ Len(cstring(k_in.data)) = DATA_SIZE - 1
    /\ k_out = k_in


\* C11: readMessage succeeds exactly when lseek succeeded and read gave a full
\* record or no byte at all; a full record comes back as the record whose
\* bytes the file holds, no byte comes back as the all-zero record (status
\* FREE, client_id 0, empty text); any other count and any lseek or read error
\* fail.  writeMessage succeeds exactly when lseek succeeded and write gave
\* the full record size, whatever fsync gave.
C11_ReadWriteOutcomes ==
    /\ k_pc \in {"read", "done"}
       => (k_w <=> (k_wsys.seek /\ k_wsys.n = 264))
    /\ k_pc = "done"
       => /\ k_r <=> (k_rsys.seek /\ k_rsys.n \in {0, 264})
          /\ (k_rsys.seek /\ k_rsys.n = 264)
             => (image(k_out) = SubSeq(file, 1, 264) /\ Len(k_out.data) = 256)
          /\ (k_rsys.seek /\ k_rsys.n = 0)
             => /\ k_out.status = 0 /\ k_out.client_id = 0
                /\ cstring(k_out.data) = <<>>
                /\ \A i \in 1..256 : k_out.data[i] = 0

\* a complete write whose fsync failed was reported as a success, and the read
\* after it gave the record
C11_Witness ==
    /\ k_pc = "done" /\ k_w /\ ~k_wsys.sync /\ k_wsys.n = 264
    /\ k_r /\ k_rsys.n = 264 /\ k_out = k_in /\ k_in.status = REQUEST

\* a client's call of autoConnectToServer
ClientConnects == d_cpc = "start" /\ d_cpc' = "done"

\* the text of a file name between the prefix and the first '.', and the
\* rest of the name from that '.' on
AfterPrefix(f) == SubSeq(f, Len(SERVER_FILE_PREFIX) + 1, Len(f))
HasPrefix(f) ==
    Len(f) >= Len(SERVER_FILE_PREFIX) /\ SubSeq(f, 1, Len(SERVER_FILE_PREFIX)) = SERVER_FILE_PREFIX
Suffix(f) ==
    LET rest == AfterPrefix(f)
        stop == CHOOSE k \in 0..Len(rest) :
                   /\ \A i \in 1..k : rest[i] # "."
                   /\ (k < Len(rest) => rest[k + 1] = ".")
    IN  SubSeq(rest, 1, stop)
Extension(f) == SubSeq(AfterPrefix(f), Len(Suffix(f)) + 1, Len(AfterPrefix(f)))

\* prefix + decimal number + ".bin"
IsArtifact(f) ==
    /\ HasPrefix(f) /\ Extension(f) = DOT_BIN
    /\ Suffix(f) # <<>> /\ \A i \in 1..Len(Suffix(f)) : Suffix(f)[i] \in { Digits[k] : k \in 1..10 }

\* the decimal number a is greater than the decimal number b
DecimalGreater(a, b) ==
    LET x == stripZeros(a)
        y == stripZeros(b)
    IN  Len(x) > Len(y) \/ (Len(x) = Len(y) /\ digitsGreater(x, y))

\* C12: when every file of the directory that carries the prefix and ".bin"
\* is named prefix + decimal number + ".bin", findServerFiles returns exactly
\* these files, in strictly descending order of their numbers.
C12_SortedDescending ==
    [][ (ClientConnects /\ \A f \in DOMAIN dir : isServerFile(f) => IsArtifact(f))
        => /\ { serverFiles'[i] : i \in 1..Len(serverFiles') } = { f \in DOMAIN dir : IsArtifact(f) }
           /\ \A i, j \in 1..Len(serverFiles') :
                 i < j => DecimalGreater(Suffix(serverFiles'[i]), Suffix(serverFiles'[j])) ]_vars

\* C13: a file whose name carries the prefix but whose suffix is not a decimal
\* number is neither in what findServerFiles returns nor what
\* autoConnectToServer returns.
C13_NonNumericExcluded ==
    [][ ClientConnects
        => /\ \A i \in 1..Len(serverFiles') : IsArtifact(serverFiles'[i])
           /\ d_result' # <<>> => IsArtifact(d_result') ]_vars

\* a file that can be opened, whose record can be read and has status FREE
\* or RESPONSE (a file without a byte reads as the all-zero record)
Available(content) == content \in {"free", "response", "empty"}

\* C14: autoConnectToServer returns the available candidate with the highest
\* number, and the empty result exactly when no candidate is available.
C14_SelectsHighestAvailable ==
    [][ ClientConnects
        => LET candidates == { f \in DOMAIN dir : IsArtifact(f) /\ Available(dir[f]) }
           IN  IF candidates = {} THEN d_result' = <<>>
               ELSE /\ d_result' \in candidates
                    /\ \A f \in candidates \ {d_result'} :
                          DecimalGreater(Suffix(d_result'), Suffix(f)) ]_vars

\* the number a file name carries for the numbering of servers: the suffix
\* of a name with the prefix and an extension, when it is a number an int holds
SuffixNumber(f) ==
    IF HasPrefix(f) /\ Extension(f) # <<>> /\ \E n \in 1..9 : Suffix(f) = <<Numeral[n]>>
    THEN CHOOSE n \in 1..9 : Suffix(f) = <<Numeral[n]>>
    ELSE 0

LargestSuffixNumber(files) ==
    LET nums == {0} \cup { SuffixNumber(f) : f \in files }
    IN  CHOOSE m \in nums : \A k \in nums : k <= m

\* the mailbox file of the server with instance number n
MailboxOf(n) == SERVER_FILE_PREFIX \o <<Numeral[n]>> \o DOT_BIN

\* a server reads the directory and settles its instance number
ServerScans(s) == d_spc[s] = "idle" /\ d_spc'[s] = "scanned"

ClientSends(c) == c_pc[c] = "send" /\ c_pc'[c] = "await"
ServerPicksUp == s_pc = "wait" /\ s_pc' = "dispatch"

\* C16: the mailbox holds one record and SEND does not look at it: a
\* successful SEND puts the client's request in the place of whatever the
\* mailbox held, another client's unread request included, and the server
\* picks up only the record the mailbox holds at its read.
C16_SendOverwrites ==
    [][ /\ \A c \in RaceClients :
              ClientSends(c) => mailbox' = Msg(REQUEST, currentClientId[c], c_cmd[c])
        /\ ServerPicksUp => s_msg' = mailbox ]_vars

\* both clients read FREE at their first read and both wrote REQUEST; the
\* mailbox holds the request written second, which is the first request the
\* server has ever picked up: the request written first is lost
C16_Witness ==
    \E c, d \in RaceClients :
        /\ c # d /\ c_pc[c] = "await" /\ c_pc[d] = "await"
        /\ waitAttempts[c] = 0 /\ waitAttempts[d] = 0
        /\ c_cmd[c] # c_cmd[d]
        /\ mailbox = Msg(REQUEST, 0, c_cmd[d])
        /\ s_pc = "dispatch" /\ s_msg = mailbox
        /\ nextClientId = 1 /\ connectedClients = {} /\ clientCounter = 0

\* C17: with reads and writes that all succeed, the multi-instance client
\* that consumed a RESPONSE or timed out ends the exchange with one write of
\* status FREE, its session id (the id it adopted from the RESPONSE when it
\* had none) and an empty payload, and is back at the prompt after it.
C17_ExchangeEndsWithFree ==
    [][ (variant = "multi" /\ ~ioFaults) => \A c \in Clients :
          /\ (ClientLeaves(c, "await") /\ c_outcome'[c] = "response"
                /\ currentClientId[c] = 0 /\ mailbox.client_id > 0)
             => currentClientId'[c] = mailbox.client_id
          /\ ((ClientLeaves(c, "free") /\ c_outcome[c] = "response")
                \/ ClientLeaves(c, "timeout"))
             => /\ mailbox' = [status |-> FREE, client_id |-> currentClientId[c], data |-> <<>>]
                /\ currentClientId'[c] = currentClientId[c]
                /\ c_pc'[c] = "prompt" ]_vars

\* the client consumed the RESPONSE that assigned it the id 1 and is back
\* at the prompt; the mailbox is FREE, carries the id 1 and no payload
C17_Witness ==
    /\ variant = "multi" /\ ~ioFaults /\ clientCounter = 1
    /\ \E c \in Clients :
         /\ c_pc[c] = "prompt" /\ c_outcome[c] = "response" /\ currentClientId[c] = 1
    /\ mailbox = [status |-> FREE, client_id |-> 1, data |-> <<>>]

\* C18: after a failed read in AWAIT_RESPONSE the multi-instance client
\* writes nothing more in that exchange: the step that takes it back to the
\* prompt leaves the mailbox record as it was.
C18_ReadFailureLeavesMailbox ==
    [][ variant = "multi" => \A c \in Clients :
          (ClientLeaves(c, "free") /\ c_outcome[c] = "readfail")
          => mailbox' = mailbox ]_vars

\* the positions of the server inside its dispatch loop
ServerLoop == {"wait", "dispatch"}

\* C19: no failed read or write takes the server out of its loop: it leaves
\* the loop only with the running flag cleared, it leaves WAIT_FOR_REQUEST
\* for a dispatch only with a REQUEST it has read, and after RESPOND, whether
\* the write succeeded or failed, it is in WAIT_FOR_REQUEST again.
C19_LeavesLoopOnlyWhenStopped ==
    [][ /\ (s_pc \in ServerLoop /\ s_pc' \notin ServerLoop) => ~s_running
        /\ ServerPicksUp => (mailbox.status = REQUEST /\ s_msg' = mailbox)
        /\ (s_pc = "dispatch" /\ s_running /\ s_pc' # s_pc) => s_pc' = "wait" ]_vars

\* the only new client's ping ever written is still pending although the
\* server has dispatched it: the RESPOND write failed, and the server is back
\* in WAIT_FOR_REQUEST with the running flag set
C19_Witness ==
    /\ variant = "multi" /\ ioFaults /\ h_new = 1 /\ nextClientId = 2
    /\ mailbox.status = REQUEST /\ mailbox.client_id = 0 /\ isValidPingRequest(mailbox.data)
    /\ s_pc = "wait" /\ s_running

\* the record "SERVER_SHUTDOWN" with status FREE and client_id 0
C20_ShutdownNotice ==
    [ status |-> FREE, client_id |-> 0,
      data |-> <<"S","E","R","V","E","R","_","S","H","U","T","D","O","W","N">> ]

\* C20: once the running flag is cleared the server leaves its loop and
\* stops; the last thing it writes is the shutdown notice (the write may fail
\* on a faulty medium, and then changes nothing); with that step the
\* multi-instance server removes its mailbox file and the single-mailbox
\* server leaves it; a stopped server takes no further step.
C20_GracefulShutdown ==
    /\ (~s_running) ~> (s_pc = "stopped")
    /\ [][ /\ ServerShutsDown
              => /\ ~s_running
                 /\ mailbox' \in {mailbox, C20_ShutdownNotice}
                 /\ ~ioFaults => mailbox' = C20_ShutdownNotice
                 /\ fileLinked /\ (fileLinked' <=> variant = "single")
           /\ s_pc = "stopped" => (s_pc' = "stopped" /\ fileLinked' = fileLinked)
           /\ s_pc # "stopped" => fileLinked ]_vars

\* the flag was cleared while the multi-instance server held a request it
\* had picked up; it has stopped, the mailbox holds the shutdown notice and
\* the mailbox file is removed
C20_Witness ==
    /\ variant = "multi" /\ s_pc = "stopped" /\ ~s_running
    /\ s_msg.status = REQUEST
    /\ mailbox = C20_ShutdownNotice /\ ~fileLinked

\* requests of the form "[N] text": the numbers and the texts looked at
C21_Numbers == { <<"1">>, <<"2">>, <<"3">>, <<"4">>, <<"-", "1">> }
C21_Texts ==
    { <<"h","i">>, <<"e","r","r","o","r">>, <<"i","n","v","a","l","i","d">>,
      <<"t","i","m","e","o","u","t">> }
C21_Request(num, text) == <<"[">> \o num \o <<"]", " ">> \o text

\* requests without a number that can be extracted or without a text
C21_Malformed ==
    { <<"[","x","]"," ","h","i">>, <<"[","1","]","h","i">>, <<"[","1","]">>, <<"a","b","c","d">> }

\* the response table
C21_Expected(text) ==
    CASE text = <<"e","r","r","o","r">> ->
           <<"E","R","R","O","R",":"," ","S","i","m","u","l","a","t","e","d"," ",
             "p","r","o","c","e","s","s","i","n","g"," ","e","r","r","o","r">>
      [] text = <<"i","n","v","a","l","i","d">> -> <<>>
      [] text = <<"t","i","m","e","o","u","t">> ->
           <<"R","e","s","p","o","n","s","e"," ","a","f","t","e","r"," ",
             "t","i","m","e","o","u","t"," ","s","i","m","u","l","a","t","i","o","n">>
      [] OTHER -> <<"O","K">>

C21_InvalidFormat ==
    <<"E","R","R","O","R",":"," ","I","n","v","a","l","i","d"," ",
      "r","e","q","u","e","s","t"," ","f","o","r","m","a","t">>

\* C21: the single-mailbox server answers a request "[N] text" by the table
\* (simulated error for "error", nothing for "invalid", the timeout text for
\* "timeout", "OK" otherwise) and a request without a number or without a
\* text by "ERROR: Invalid request format".
C21_ResponseTable ==
    [][ (variant = "single" /\ ~ioFaults /\ ServerResponds)
        => /\ \A num \in C21_Numbers, text \in C21_Texts :
                s_msg.data = C21_Request(num, text) => mailbox'.data = C21_Expected(text)
           /\ s_msg.data \in C21_Malformed => mailbox'.data = C21_InvalidFormat ]_vars

\* C22: the client's discovery and binding change no file of the directory
\* (none is created, removed or written), and when no file with the prefix
\* is available the client is left without a mailbox.
C22_DiscoveryReadOnly ==
    [][ ClientConnects
        => /\ dir' = dir
           /\ (\A f \in DOMAIN dir : HasPrefix(f) => ~Available(dir[f])) => d_result' = <<>> ]_vars

\* the client found candidates, one of them too short to hold a record and
\* none of them available, and is left without a mailbox
C22_Witness ==
    /\ d_cpc = "done" /\ d_result = <<>> /\ Len(serverFiles) >= 2
    /\ \E f \in DOMAIN dir : isServerFile(f) /\ dir[f] = "short"

\* the client's request is in the mailbox and the client polls for the reply
C23_Requested(c) ==
    /\ c_pc[c] \in {"await", "p_await"}
    /\ mailbox.status = REQUEST

\* the server's reply is in the mailbox and the client has not reset it yet
C23_Answered(c) ==
    /\ c_pc[c] \in {"await", "p_await", "free", "p_reset"}
    /\ mailbox.status = RESPONSE

\* the client is back at the prompt and the mailbox is free
C23_Returned(c) == c_pc[c] = "prompt" /\ mailbox.status = FREE

\* C23: with one client and one running server, no I/O failure, no shutdown
\* and replies that arrive within the client's timeout, every REQUEST the
\* client writes is followed by the server's RESPONSE and then by the
\* client's reset to FREE, so the mailbox is FREE when the client starts its
\* next attempt.
C23_ExchangeLiveness ==
    /\ \A c \in Clients : C23_Requested(c) ~> C23_Answered(c)
    /\ \A c \in Clients : C23_Answered(c) ~> C23_Returned(c)
    /\ [][ \A c \in Clients :
             (c_pc[c] = "prompt" /\ c_pc'[c] \in {"wff", "p_read"})
                 => mailbox.status = FREE ]_vars

C23_Witness ==
    /\ variant = "multi" /\ ~ioFaults /\ s_running
    /\ \E c \in Clients :
         /\ c_pc[c] = "wff" /\ currentClientId[c] > 0
         /\ c_outcome[c] = "none"
         /\ mailbox = resetRecord(currentClientId[c])

\* the server and the client are both running and no read or write fails
C24_BothRunning(c) ==
    /\ variant = "multi" /\ ~ioFaults
    /\ s_running /\ s_pc \in {"wait", "dispatch"}
    /\ c_running[c]

\* C24: while a server and a client are both running, every state whose
\* status is REQUEST or RESPONSE (a RESPONSE written after the client's
\* timeout reset included) is followed by a state with status FREE, and a
\* client that was told "server busy" is not told so forever.
C24_NotLockedForever ==
    \A c \in Clients :
        /\ (C24_BothRunning(c) /\ mailbox.status \in {REQUEST, RESPONSE})
               ~> (mailbox.status = FREE \/ ~C24_BothRunning(c))
        /\ (C24_BothRunning(c) /\ c_outcome[c] = "busy")
               ~> (c_outcome[c] \in {"response", "timeout"} \/ ~C24_BothRunning(c))

\* the polls a wait loop bounded by its timeout can make: one per sleep
\* until the clock has passed the timeout, and the one that sees it
C25_PollLimit(v) == timeoutOf(v) \div SLEEP_MS + 2

\* C25: after writing a REQUEST the client leaves the wait loop after a
\* bounded number of polls, also when every read of the mailbox fails, in
\* the multi-instance and in the single-mailbox client.
C25_AwaitTerminates == w_pc = "poll" => w_polls <= C25_PollLimit(variant)

\* the same bound for the multi-instance client alone
C25_MultiAwaitTerminates ==
    (variant = "multi" /\ w_pc = "poll") => w_polls <= C25_PollLimit(variant)

\* the same bound for the single-mailbox client while its reads succeed
C25_SingleAwaitTerminates ==
    (variant = "single" /\ ~ioFaults /\ w_pc = "poll") => w_polls <= C25_PollLimit(variant)

\* client c leaves WAIT_FOR_FREE towards SEND, which follows unconditionally
ClientProceedsToSend(c) == variant = "multi" /\ c_pc[c] = "wff" /\ c_pc'[c] = "send"

\* C26: the multi-instance client goes on to write its REQUEST only when
\* the last read of WAIT_FOR_FREE was made with the running flag set and
\* found status FREE; after a failed read, or with the flag cleared before
\* any read, no REQUEST is written.
C26_SendsOnlyAfterFree ==
    [][ \A c \in Clients :
          ClientProceedsToSend(c) => (c_running[c] /\ mailbox.status = FREE) ]_vars

\* client c of the single-mailbox deployment consumes a RESPONSE in this step
ClientConsumes(c) ==
    /\ variant = "single" /\ c_pc[c] = "await" /\ c_pc'[c] = "free"
    /\ c_outcome'[c] = "response"

\* C27: every RESPONSE a client consumes was computed by the server from the
\* REQUEST this client wrote in the same exchange: the reply to an earlier
\* request that timed out is never consumed as the answer to a later one.
C27_ExchangesIndependent ==
    [][ \A c \in Clients :
          ClientConsumes(c)
              => mailbox.data =
                   strncpy255(processRequest(fullRequest(requestCounter, c_cmd[c])).response) ]_vars

\* the probe of client c returns in this step after having written its ping
ProbeReturns(c) ==
    /\ variant = "multi" /\ c_pc[c] \in {"p_await", "p_reset"}
    /\ c_pc'[c] = "prompt"

\* C28: the probe writes its ping only after reading status FREE, and
\* whenever it has written the ping the mailbox is back at status FREE when
\* the probe returns, with or without a RESPONSE seen.
C28_ProbeLeavesFree ==
    [][ \A c \in Clients :
          /\ (c_pc[c] = "p_read" /\ c_pc'[c] = "p_send") => mailbox.status = FREE
          /\ (~ioFaults /\ ProbeReturns(c)) => mailbox'.status = FREE ]_vars

\* the first half alone: the ping is written only after status FREE was read
C28_PingOnlyAfterFree ==
    [][ \A c \in Clients :
          (c_pc[c] = "p_read" /\ c_pc'[c] = "p_send") => mailbox.status = FREE ]_vars

\* C29: the multi-instance server does not dispatch a REQUEST a second time
\* after its RESPOND write failed, so the ids handed out never outnumber the
\* requests with client_id 0 that were written: nextClientId advances by at
\* most 1 per such request.
C29_OneAllocationPerRequest == variant = "multi" => nextClientId - 1 <= h_new

\* the same count while every write of the server succeeds
C29_OneAllocationWithoutFaults ==
    (variant = "multi" /\ ~ioFaults) => nextClientId - 1 <= h_new

\* C30: any two server processes running at the same time in one directory
\* have distinct instance numbers, and so distinct mailbox files, also when
\* both computed their number from the same directory listing.
C30_DistinctInstances ==
    \A s, t \in DServers :
        (s # t /\ d_spc[s] = "running" /\ d_spc[t] = "running")
            => /\ d_num[s] # d_num[t]
               /\ serverFileName(d_num[s]) # serverFileName(d_num[t])

\* client c consumes a RESPONSE in AWAIT_RESPONSE
ClientAdopts(c) ==
    /\ variant = "multi" /\ c_pc[c] = "await" /\ c_pc'[c] = "free"
    /\ mailbox.status = RESPONSE

\* client c handles a CONNECT or DISCONNECT command
SessionCommand(c) == c_pc[c] \in PromptPositions /\ c_pc'[c] \in PromptPositions

\* client c writes the mailbox in this step
ClientWrites(c) == c_pc'[c] # c_pc[c] /\ mailbox' # mailbox

\* C31: currentClientId goes from 0 to a nonzero value only when the
\* client consumes a RESPONSE whose client_id is nonzero, and takes that
\* value; once nonzero it is changed by no exchange and no probe, only a
\* connect or disconnect command sets it back to 0; every REQUEST and every
\* reset the client writes carries the current value.
C31_SessionId ==
    [][ \A c \in Clients :
          /\ currentClientId'[c] # currentClientId[c]
                => \/ /\ ClientAdopts(c)
                      /\ currentClientId[c] = 0 /\ mailbox.client_id # 0
                      /\ currentClientId'[c] = mailbox.client_id
                   \/ SessionCommand(c) /\ currentClientId'[c] = 0
          /\ ClientWrites(c)
                => /\ mailbox'.status \in {REQUEST, FREE}
                   /\ mailbox'.client_id = currentClientId[c]
                   /\ currentClientId'[c] = currentClientId[c] ]_vars

\* the client adopted an id, reset the mailbox with it and then disconnected
C31_Witness ==
    /\ variant = "multi" /\ ~ioFaults
    /\ \E c \in Clients :
         /\ c_pc[c] = "detached" /\ currentClientId[c] = 0
         /\ c_outcome[c] = "response"
         /\ mailbox.status = FREE /\ mailbox.client_id > 0 /\ mailbox.data = <<>>

\* the mailbox holds the server's shutdown notice
SentinelPresent == mailbox = shutdownRecord

\* client c made a successful read of its WAIT_FOR_FREE loop and left the
\* loop towards SEND (the single-mailbox client asks for the input first)
ClientPassesWaitForFree(c) ==
    /\ ~ioFaults /\ c_running[c]
    /\ c_pc[c] = "wff" /\ c_pc'[c] \in {"send", "input"}

\* client c left its AWAIT_RESPONSE loop with a response
ClientTakesResponse(c) ==
    /\ c_pc[c] = "await" /\ c_pc'[c] = "free" /\ c_outcome'[c] = "response"

\* C32: once the shutdown notice (status FREE, "SERVER_SHUTDOWN") is in the
\* mailbox, a client that reads it in WAIT_FOR_FREE does not go on to write
\* a REQUEST, and a client in AWAIT_RESPONSE does not take it as a response.
C32_ShutdownDetected ==
    [][ \A c \in Clients :
          SentinelPresent => (~ClientPassesWaitForFree(c) /\ ~ClientTakesResponse(c)) ]_vars

\* the second half alone: the notice is never taken as a response
C32_NoticeNotAResponse ==
    [][ \A c \in Clients : SentinelPresent => ~ClientTakesResponse(c) ]_vars

===========================================================================
